---- MODULE Spec2Model ----
(***************************************************************************)
(* Model of element_array_ephys: the spike-sorting pipeline of             *)
(* spike_sorting/si_spike_sorting.py (PreProcessing -> SIClustering ->     *)
(* PostProcessing -> SIExport), the output directory convention of         *)
(* ClusteringTask.infer_output_dir and the LFP engine of                   *)
(* ephys_no_curation.py (LFP.make_fetch / make_compute / make_insert).     *)
(*                                                                         *)
(* The state machines share the variables:                                 *)
(*   Spec, FairSpec : the pipeline over a fixed ClusteringTask table       *)
(*   ValidationSpec : the pipeline with parameter sets lacking a key       *)
(*   CurationSpec   : the pipeline followed by CuratedClustering           *)
(*   DirSpec        : ClusteringTask entries and their inferred directories*)
(*   LfpSpec        : LFP populations of one declared session              *)
(*   ChanSpec       : LFP populations over channel layouts and electrodes  *)
(*   ParamSpec      : ClusteringParamSet.insert_new_params                 *)
(*   ExtSpec        : the extensions PostProcessing computes               *)
(*   RecSpec        : the recording PreProcessing builds from the channels *)
(*   OutputDirSpec  : the pipeline over tasks with a directory given       *)
(***************************************************************************)
EXTENDS Integers, Sequences, FiniteSets, TLC

(***************************************************************************)
(* Bounds                                                                  *)
(***************************************************************************)
\* failures (I/O errors, engine errors, kills) injected in one behaviour
MaxFailures == 2

(***************************************************************************)
(* Keys.  A session key is the primary key of EphysSession (the Experiment *)
(* part is carried by organoid_id); a task key adds paramset_idx.  Times   *)
(* are datetimes with a resolution of one second, counted in seconds.      *)
(***************************************************************************)
TaskKey(org, ins, st, en, idx) ==
    [organoid_id |-> org, insertion_number |-> ins,
     start_time |-> st, end_time |-> en, paramset_idx |-> idx]

\* ClusteringMethod.contents; a name is the sequence of its pieces, so that
\* str.replace can be computed on it
ClusteringMethod ==
    { <<"kilosort2">>, <<"kilosort2", ".", "5">>, <<"kilosort3">> }

\* str.replace(old, new) on a name
Replace(name, old, new) ==
    [i \in DOMAIN name |-> IF name[i] = old THEN new ELSE name[i]]

\* SI_SORTERS: the sorter names of spikeinterface with "_" replaced by "."
SI_SORTERS ==
    { Replace(s, "_", ".") :
        s \in { <<"kilosort2">>, <<"kilosort2", "_", "5">>, <<"kilosort3">>,
                <<"mountainsort5">> } }

\* the three keys PreProcessing.make requires in params
RequiredKeysNone == {}
RequiredKeys ==
    {"SI_PREPROCESSING_METHOD", "SI_SORTING_PARAMS", "SI_POSTPROCESSING_PARAMS"}

\* the preprocessing functions of the module si_preprocessing
si_preprocessing == {"CatGT", "IBLdestriping", "IBLdestriping_modified"}

\* ClusteringParamSet: paramset_idx -> (clustering_method, params).  params
\* is reduced to what the pipeline reads: the keys present, the value of
\* SI_PREPROCESSING_METHOD and the export requests of
\* SI_POSTPROCESSING_PARAMS.  The sets 3, 4 and 5 each lack one of the
\* required keys; set 6 names a function si_preprocessing does not have.
ClusteringParamSet ==
    (1 :> [clustering_method |-> <<"kilosort2", ".", "5">>,
           keys |-> RequiredKeys,
           SI_PREPROCESSING_METHOD |-> "CatGT",
           export_report |-> TRUE, export_to_phy |-> TRUE]) @@
    (2 :> [clustering_method |-> <<"kilosort3">>,
           keys |-> RequiredKeys,
           SI_PREPROCESSING_METHOD |-> "CatGT",
           export_report |-> TRUE, export_to_phy |-> FALSE]) @@
    (3 :> [clustering_method |-> <<"kilosort3">>,
           keys |-> {"SI_SORTING_PARAMS", "SI_POSTPROCESSING_PARAMS"},
           SI_PREPROCESSING_METHOD |-> "",
           export_report |-> FALSE, export_to_phy |-> FALSE]) @@
    (4 :> [clustering_method |-> <<"kilosort3">>,
           keys |-> {"SI_PREPROCESSING_METHOD", "SI_POSTPROCESSING_PARAMS"},
           SI_PREPROCESSING_METHOD |-> "CatGT",
           export_report |-> FALSE, export_to_phy |-> FALSE]) @@
    (5 :> [clustering_method |-> <<"kilosort3">>,
           keys |-> {"SI_PREPROCESSING_METHOD", "SI_SORTING_PARAMS"},
           SI_PREPROCESSING_METHOD |-> "CatGT",
           export_report |-> FALSE, export_to_phy |-> FALSE]) @@
    (6 :> [clustering_method |-> <<"kilosort3">>,
           keys |-> {"SI_PREPROCESSING_METHOD", "SI_SORTING_PARAMS",
                     "SI_POSTPROCESSING_PARAMS"},
           SI_PREPROCESSING_METHOD |-> "bandpass",
           export_report |-> FALSE, export_to_phy |-> FALSE])

\* AcquisitionSoftware: its contents and a row added by a user; a name is
\* the sequence of its pieces
AcquisitionSoftware ==
    { <<"SpikeGLX">>, <<"Open", " ", "Ephys">>, <<"Intan">>, <<"Trodes">> }

\* str.lower() on the pieces of these names
Lower(piece) ==
    CASE piece = "SpikeGLX" -> "spikeglx"
      [] piece = "Open" -> "open"
      [] piece = "Ephys" -> "ephys"
      [] piece = "Intan" -> "intan"
      [] piece = "Trodes" -> "trodes"
      [] OTHER -> piece

\* acq_key = acq_software.replace(" ", "").lower()
acq_key(name) ==
    LET kept == SelectSeq(name, LAMBDA piece : piece # " ")
    IN  [i \in DOMAIN kept |-> Lower(kept[i])]

\* the keys of recording_extractor_full_dict that these names can give
recording_extractor_full_dict ==
    { <<"spikeglx">>, <<"open", "ephys">>, <<"intan">> }

\* what PreProcessing.make needs beyond the required keys: an extractor for
\* the acquisition software and the preprocessing function
SupportedAny(software, params) == TRUE
Supported(software, params) ==
    /\ acq_key(software) \in recording_extractor_full_dict
    /\ params.SI_PREPROCESSING_METHOD \in si_preprocessing

Organoids == {"O09", "O10"}

(***************************************************************************)
(* Double-precision arithmetic of the minute computations.                 *)
(* `total_seconds() / 60` and `n_samples / sample_rate / 60` are IEEE-754  *)
(* doubles.  A double is kept exactly, as a count of units of 2^-58 minute *)
(* written in three digits: value = t * 2^45 + m * 2^30 + l.               *)
(***************************************************************************)
Pow2(k) == 2^k

Units(t, m, l) == [t |-> t, m |-> m, l |-> l]

\* carry from l (30 bits) into m (15 bits) into t
Carry(v) ==
    LET l1 == v.l % Pow2(30)
        m0 == v.m + (v.l \div Pow2(30))
    IN  Units(v.t + (m0 \div Pow2(15)), m0 % Pow2(15), l1)

Less(a, b) ==
    \/ a.t < b.t
    \/ a.t = b.t /\ a.m < b.m
    \/ a.t = b.t /\ a.m = b.m /\ a.l < b.l

\* a - b for b <= a
Minus(a, b) ==
    LET bl == IF a.l < b.l THEN 1 ELSE 0
        l  == a.l - b.l + bl * Pow2(30)
        bm == IF a.m - bl < b.m THEN 1 ELSE 0
        m  == a.m - bl - b.m + bm * Pow2(15)
    IN  Units(a.t - bm - b.t, m, l)

\* abs(a - b), and the double it rounds to is > x iff the exact value is
\* > x + half an ulp of x (see GreaterThanHalf)
AbsDiff(a, b) == IF Less(a, b) THEN Minus(b, a) ELSE Minus(a, b)

\* float(n) / 60 for an integer n >= 1, rounded to nearest, ties to even:
\* the quotient n * 2^58 / 60 by long division, then the bits below the
\* 53rd significant bit rounded off
DivBy60(n) ==
    LET n3 == n * Pow2(13)
        q3 == n3 \div 60
        n2 == (n3 % 60) * Pow2(15)
        q2 == n2 \div 60
        n1 == (n2 % 60) * Pow2(15)
        q1 == n1 \div 60
        n0 == (n1 % 60) * Pow2(15)
        q0 == n0 \div 60
        r0 == n0 % 60
        \* the ulp of n / 60 is 2^s units
        s    == CHOOSE k \in 0..14 :
                    60 * Pow2(k) <= 64 * n /\ 64 * n < 60 * Pow2(k + 1)
        low  == q0 % Pow2(s)
        rest == 2 * (low * 60 + r0)
        odd  == (q0 \div Pow2(s)) % 2 = 1
        up   == rest > 60 * Pow2(s) \/ (rest = 60 * Pow2(s) /\ odd)
        l0   == q0 - low + (IF up THEN Pow2(s) ELSE 0)
    IN  Carry(Units(q3, q2, q1 * Pow2(15) + l0))

\* the double of a whole number of minutes
Minutes(k) == Units(k * Pow2(13), 0, 0)

\* `x > 0.5` for the double x = fl(exact): the doubles next to 0.5 are
\* 0.5 + 2^-53 above it, and a tie rounds to 0.5, so fl(exact) > 0.5 iff
\* exact > 0.5 + 2^-54
GreaterThanHalf(exact) == Less(Units(Pow2(12), 0, Pow2(4)), exact)

(***************************************************************************)
(* State                                                                   *)
(***************************************************************************)
VARIABLES
    ClusteringTask,          \* table ClusteringTask: the set of task keys
    clustering_output_dir,   \* ClusteringTask.clustering_output_dir, <<>> is ''
    PreProcessing,           \* table PreProcessing (StageResult), set of tasks
    SIClustering,            \* table SIClustering (StageResult of Sorting)
    PostProcessing,          \* table PostProcessing (StageResult)
    Clustering,              \* table ephys.Clustering (completion record)
    SIExport,                \* table SIExport (StageResult of Export)
    File,                    \* part table SIExport.File (manifest)
    made_dirs,               \* directories created with mkdir
    recording,               \* <sorter dir>/recording/si_recording.pkl
    spike_sorting,           \* <sorter dir>/spike_sorting
    sorting_analyzer,        \* <sorter dir>/sorting_analyzer
    report,                  \* <sorter dir>/sorting_analyzer/spikeinterface_report
    phy,                     \* <sorter dir>/sorting_analyzer/phy
    failures,                \* failures injected so far
    last,                    \* the make call of the latest step
    acq_software,            \* acq_software of the first row of EphysRawFile
    session,                 \* the EphysSession key LFP is populated for
    header,                  \* the header of the session's raw files
    amplifier_channels,      \* data["amplifier_channels"] of the raw files
    probe_info,              \* the session's row of EphysSessionProbe
    session_info,            \* the session's row of EphysSessionInfo, <<>>: none
    EphysRawFile,            \* table EphysRawFile (catalog of raw files)
    lfp_pc,                  \* where the population of LFP stands
    lfp_fetched,             \* what make_fetch returned
    lfp_computed,            \* what make_compute returned
    lfp_io,                  \* catalog queries and file loads of this call
    LFP,                     \* table LFP
    Trace,                   \* part table LFP.Trace
    CuratedClustering,       \* table CuratedClustering, set of tasks
    Unit,                    \* part table CuratedClustering.Unit
    curation_call,           \* the latest make of CuratedClustering
    ParamSets,               \* the rows insert_new_params has stored
    param_call,              \* the latest call of insert_new_params
    extensions_params,       \* SI_POSTPROCESSING_PARAMS["extensions"]
    computable_extensions,   \* sorting_analyzer.get_computable_extensions()
    analyzer_compute,        \* the call sorting_analyzer.compute(...), <<>>: none
    electrodes_df,           \* the electrodes of the probe's electrode_config
    si_recording             \* the recording PreProcessing builds, <<>>: none

pipelineVars ==
    <<ClusteringTask, clustering_output_dir, PreProcessing, SIClustering,
      PostProcessing, Clustering, SIExport, File, made_dirs, recording,
      spike_sorting, sorting_analyzer, report, phy, failures, last,
      acq_software>>

\* what is set when the session is declared and recorded
lfpInputs == <<session, header, amplifier_channels, probe_info>>

lfpVars ==
    <<lfpInputs, session_info, EphysRawFile, lfp_pc, lfp_fetched,
      lfp_computed, lfp_io, LFP, Trace>>

paramVars == <<ParamSets, param_call>>

\* what the makes of the pipeline, and what those of LFP, leave alone
curationVars == <<CuratedClustering, Unit, curation_call>>

\* the inputs and results of single steps of PostProcessing and PreProcessing
stepVars ==
    <<extensions_params, computable_extensions, analyzer_compute,
      electrodes_df, si_recording>>

notPipeline == <<lfpVars, paramVars, curationVars, stepVars>>
notLfp == <<pipelineVars, paramVars, curationVars, stepVars>>

vars == <<pipelineVars, lfpVars, paramVars, curationVars, stepVars>>

(***************************************************************************)
(* ClusteringTask.infer_output_dir                                         *)
(***************************************************************************)
\* datetime.strftime("%Y%m%d%H%M"): the datetime cut to its minute
Strftime(t) == t \div 60

\* get_organoid_directory of the linking module: the experiment's directory
get_organoid_directory(key) == <<key.organoid_id>>

\* sorter_name = clustering_method.replace(".", "_")
SorterName(method) == Replace(method, ".", "_")

\* infer_output_dir(key, relative=True): a path is the sequence of its parts
infer_output_dir(key) ==
    LET exp_dir      == get_organoid_directory(key)
        session_time == <<Strftime(key.start_time), "_", Strftime(key.end_time)>>
        session_dir  == exp_dir \o <<session_time, key.organoid_id>>
        method       == Replace(ClusteringParamSet[key.paramset_idx].clustering_method,
                                ".", "-")
    IN  session_dir \o << <<method, "_", key.paramset_idx>> >>

(***************************************************************************)
(* The pipeline's fixed ClusteringTask table                               *)
(***************************************************************************)
\* two sessions of one experiment that start 30 s apart, and a second
\* parameter set on the first of them
PipelineTasks ==
    { TaskKey("O09", 0, 0, 600, 1),
      TaskKey("O09", 0, 30, 600, 1),
      TaskKey("O09", 0, 0, 600, 2) }

SessionOf(t) ==
    [organoid_id |-> t.organoid_id, insertion_number |-> t.insertion_number,
     start_time |-> t.start_time, end_time |-> t.end_time]

\* table EphysSessionInfo: the sessions whose header has been stored
EphysSessionInfo == { SessionOf(t) : t \in PipelineTasks }

ParamsOf(t) == ClusteringParamSet[t.paramset_idx]

\* <output_dir>/<sorter_name>, the directory the four artifacts live under
SorterDir(output_dir, t) ==
    <<output_dir, SorterName(ParamsOf(t).clustering_method)>>

SorterDirs == { SorterDir(infer_output_dir(t), t) : t \in PipelineTasks }

(***************************************************************************)
(* Artifacts.  content is what the directory holds, marker is the          *)
(* ".<hash>.json" file memoized_result writes into it.                     *)
(***************************************************************************)
Absent  == [content |-> "none", marker |-> FALSE]
Exists(a) == a.content # "none" \/ a.marker

Outcomes == {"ok", "error", "killed", "insert_fail"}

\* the wrapper memoized_result(uniqueness_dict, output_directory) puts around
\* func: skip func when the marker is there, else run it and write the marker
\* after it has returned.  "error": func raises part-way; "killed": the
\* process dies after func has written its result and before the marker.
MemoMarkerFirst(a, outcome) ==
    IF a.marker
    THEN [art |-> a, ran |-> FALSE, ok |-> TRUE]
    ELSE [art |-> [content |-> IF outcome \in {"ok", "insert_fail"} THEN "full"
                               ELSE "partial",
                   marker  |-> TRUE],
          ran |-> TRUE, ok |-> outcome \in {"ok", "insert_fail"}]

MemoAlwaysRun(a, outcome) ==
    [art |-> [content |-> IF outcome = "error" THEN "partial" ELSE "full",
              marker  |-> outcome \in {"ok", "insert_fail"}],
     ran |-> TRUE, ok |-> outcome \in {"ok", "insert_fail"}]

memoized_result(a, outcome) ==
    IF a.marker
    THEN [art |-> a, ran |-> FALSE, ok |-> TRUE]
    ELSE [art |-> [content |-> IF outcome = "error" THEN "partial" ELSE "full",
                   marker  |-> outcome \in {"ok", "insert_fail"}],
          ran |-> TRUE, ok |-> outcome \in {"ok", "insert_fail"}]

\* a failure needs budget, and func cannot fail when it is skipped
CanHappen(a, outcome) ==
    /\ outcome # "ok" => failures < MaxFailures
    /\ a.marker => outcome \in {"ok", "insert_fail"}

Fail(outcome) == IF outcome = "ok" THEN failures ELSE failures + 1

Call(op, t, engine, ok) == [op |-> op, task |-> t, engine |-> engine, ok |-> ok]

(***************************************************************************)
(* Pending work: populate() calls make(key) for key_source - target        *)
(***************************************************************************)
\* PreProcessing.key_source ("task_mode" is no attribute of the join, so
\* that restriction selects everything)
PreProcessingKeySource ==
    { t \in ClusteringTask :
        /\ SessionOf(t) \in EphysSessionInfo
        /\ ParamsOf(t).clustering_method \in SI_SORTERS } \ Clustering

\* the default key_source of a table is the join of its parents
SIClusteringKeySource == PreProcessing

PostProcessingKeySourceSkipSorting == PreProcessing
PostProcessingKeySourceAnyTask == ClusteringTask
PostProcessingKeySource == SIClustering

SIExportKeySource == PostProcessing

Pending(key_source, target) == key_source \ target

RecordingAt(sd) == IF sd \in DOMAIN recording THEN recording[sd] ELSE "none"
ArtifactAt(fs, sd) == IF sd \in DOMAIN fs THEN fs[sd] ELSE Absent
Put(fs, sd, a) == IF sd \in DOMAIN fs THEN [fs EXCEPT ![sd] = a] ELSE fs

(***************************************************************************)
(* PreProcessing.make                                                      *)
(***************************************************************************)
OutputDirAlwaysInferred(output_dir, key) == infer_output_dir(key)

\* "if not output_dir: output_dir = infer_output_dir(key, ...)": the stored
\* directory is used when there is one
ResolveOutputDir(output_dir, key) ==
    IF output_dir = <<>> THEN infer_output_dir(key) ELSE output_dir

PreProcessingMake(t, outcome) ==
    /\ t \in Pending(PreProcessingKeySource, PreProcessing)
    /\ outcome \in {"ok", "error"}
    /\ outcome # "ok" => failures < MaxFailures
    /\ IF ~(RequiredKeys \subseteq ParamsOf(t).keys)
       THEN \* ValueError before any effect
            /\ outcome = "ok"
            /\ last' = Call("PreProcessing", t, FALSE, FALSE)
            /\ UNCHANGED <<clustering_output_dir, PreProcessing, made_dirs,
                           recording, failures>>
       ELSE LET inferred   == clustering_output_dir[t] = <<>>
                output_dir == ResolveOutputDir(clustering_output_dir[t], t)
                sd         == SorterDir(output_dir, t)
                ok         == /\ outcome = "ok"
                              /\ Supported(acq_software, ParamsOf(t))
            IN  /\ made_dirs' = made_dirs \cup {<<sd, "recording">>}
                                  \cup (IF inferred THEN {output_dir} ELSE {})
                /\ IF ok
                   THEN /\ clustering_output_dir' =
                              [clustering_output_dir EXCEPT ![t] = output_dir]
                        /\ recording' = Put(recording, sd, "full")
                        /\ PreProcessing' = PreProcessing \cup {t}
                   ELSE \* a read error, no extractor for the acquisition
                        \* software (ValueError) or no such preprocessing
                        \* function (AttributeError): the transaction of
                        \* make is rolled back, update1 included
                        UNCHANGED <<clustering_output_dir, recording,
                                    PreProcessing>>
                /\ failures' = Fail(outcome)
                /\ last' = Call("PreProcessing", t, FALSE, ok)
    /\ UNCHANGED <<acq_software, ClusteringTask, SIClustering, PostProcessing, Clustering,
                   SIExport, File, spike_sorting, sorting_analyzer, report, phy>>

(***************************************************************************)
(* SIClustering.make                                                       *)
(***************************************************************************)
SIClusteringMake(t, outcome) ==
    /\ t \in Pending(SIClusteringKeySource, SIClustering)
    /\ LET sd == SorterDir(clustering_output_dir[t], t)
           a  == ArtifactAt(spike_sorting, sd)
           m  == memoized_result(a, outcome)
       IN  IF RecordingAt(sd) # "full"
           THEN \* si.load_extractor raises
                /\ outcome = "ok"
                /\ last' = Call("SIClustering", t, FALSE, FALSE)
                /\ UNCHANGED <<spike_sorting, SIClustering, failures>>
           ELSE /\ CanHappen(a, outcome)
                /\ spike_sorting' = Put(spike_sorting, sd, m.art)
                /\ SIClustering' = IF outcome = "ok"
                                   THEN SIClustering \cup {t} ELSE SIClustering
                /\ failures' = Fail(outcome)
                /\ last' = Call("SIClustering", t, m.ran, outcome = "ok")
    /\ UNCHANGED <<acq_software, ClusteringTask, clustering_output_dir, PreProcessing,
                   PostProcessing, Clustering, SIExport, File, made_dirs,
                   recording, sorting_analyzer, report, phy>>

(***************************************************************************)
(* PostProcessing.make                                                     *)
(***************************************************************************)
\* populate runs make in a transaction: the rows a make inserts stay only if
\* it returns; "insert_fail" is a failure of its last insert
CommittedUpToFailure(outcome) == outcome \in {"ok", "insert_fail"}
Committed(outcome) == outcome = "ok"

PostProcessingMake(t, outcome) ==
    /\ t \in Pending(PostProcessingKeySource, PostProcessing)
    /\ LET sd == SorterDir(clustering_output_dir[t], t)
           a  == ArtifactAt(sorting_analyzer, sd)
           m  == memoized_result(a, outcome)
       IN  IF RecordingAt(sd) # "full"
              \/ ArtifactAt(spike_sorting, sd).content # "full"
           THEN \* si.load_extractor raises
                /\ outcome = "ok"
                /\ last' = Call("PostProcessing", t, FALSE, FALSE)
                /\ UNCHANGED <<sorting_analyzer, report, phy, PostProcessing,
                               Clustering, failures>>
           ELSE /\ CanHappen(a, outcome)
                /\ sorting_analyzer' = Put(sorting_analyzer, sd, m.art)
                \* create_sorting_analyzer(overwrite=True) removes the folder,
                \* the export folders inside it included
                /\ report' = IF m.ran THEN Put(report, sd, Absent) ELSE report
                /\ phy' = IF m.ran THEN Put(phy, sd, Absent) ELSE phy
                \* the two inserts are in the one transaction of make
                /\ PostProcessing' = IF Committed(outcome)
                                     THEN PostProcessing \cup {t}
                                     ELSE PostProcessing
                /\ Clustering' = IF outcome = "ok"
                                 THEN Clustering \cup {t} ELSE Clustering
                /\ failures' = Fail(outcome)
                /\ last' = Call("PostProcessing", t, m.ran, outcome = "ok")
    /\ UNCHANGED <<acq_software, ClusteringTask, clustering_output_dir, PreProcessing,
                   SIClustering, SIExport, File, made_dirs, recording,
                   spike_sorting>>

(***************************************************************************)
(* SIExport.make                                                           *)
(***************************************************************************)
\* the gate in front of an export function: requested and no folder yet
ExportGateRequested(requested, a) == requested
ExportGate(requested, a) == requested /\ ~Exists(a)

Skipped(a) == [art |-> a, ran |-> FALSE, ok |-> TRUE]

\* export_dir.rglob("*"), files only: the files of an export folder, as
\* paths relative to it; the marker of memoized_result is one of them
ExportFiles(a) ==
    (CASE a.content = "full" -> { <<"index">>, <<"units", "0">> }
       [] a.content = "partial" -> { <<"index">> }
       [] OTHER -> {})
    \cup (IF a.marker THEN { <<".hash.json">> } ELSE {})

\* f.relative_to(analyzer_output_dir) for a file f of the folder `name`
RelativeToParent(name, f) == f
RelativeToAnalyzer(name, f) == <<name>> \o f

\* the rows of SIExport.File for one export folder: one for each file
FileRows(t, name, a) ==
    IF Exists(a)
    THEN { [task |-> t, file_name |-> RelativeToAnalyzer(name, f),
            content |-> a.content] : f \in ExportFiles(a) }
    ELSE {}

\* `at` is the step a failure strikes: the report export, the Phy export,
\* or the inserts that follow them
SIExportMake(t, outcome, at) ==
    /\ t \in Pending(SIExportKeySource, SIExport)
    /\ outcome \in {"ok", "error", "killed"}
    /\ at \in {"report", "phy", "insert"}
    /\ outcome = "ok" <=> at = "insert"
    /\ outcome # "ok" => failures < MaxFailures
    /\ LET sd == SorterDir(clustering_output_dir[t], t)
           p  == ParamsOf(t)
           doReport == ExportGate(p.export_report, ArtifactAt(report, sd))
           r  == IF doReport
                 THEN memoized_result(ArtifactAt(report, sd),
                                      IF at = "report" THEN outcome ELSE "ok")
                 ELSE Skipped(ArtifactAt(report, sd))
           doPhy == r.ok /\ ExportGate(p.export_to_phy, ArtifactAt(phy, sd))
           ph == IF doPhy
                 THEN memoized_result(ArtifactAt(phy, sd),
                                      IF at = "phy" THEN outcome ELSE "ok")
                 ELSE Skipped(ArtifactAt(phy, sd))
           ok == r.ok /\ ph.ok /\ outcome = "ok"
       IN  /\ at = "report" => doReport
           /\ at = "phy" => doPhy
           /\ report' = Put(report, sd, r.art)
           /\ phy' = Put(phy, sd, ph.art)
           /\ SIExport' = IF ok THEN SIExport \cup {t} ELSE SIExport
           /\ File' = IF ok
                      THEN File \cup FileRows(t, "spikeinterface_report", r.art)
                                \cup FileRows(t, "phy", ph.art)
                      ELSE File
           /\ failures' = Fail(outcome)
           /\ last' = Call("SIExport", t, r.ran \/ ph.ran, ok)
    /\ UNCHANGED <<acq_software, ClusteringTask, clustering_output_dir, PreProcessing,
                   SIClustering, PostProcessing, Clustering, made_dirs,
                   recording, spike_sorting, sorting_analyzer>>

(***************************************************************************)
(* The pipeline                                                            *)
(***************************************************************************)
PipelineInit ==
    /\ ClusteringTask = PipelineTasks
    /\ clustering_output_dir = [t \in PipelineTasks |-> <<>>]
    /\ PreProcessing = {}
    /\ SIClustering = {}
    /\ PostProcessing = {}
    /\ Clustering = {}
    /\ SIExport = {}
    /\ File = {}
    /\ made_dirs = {}
    /\ recording = [d \in SorterDirs |-> "none"]
    /\ spike_sorting = [d \in SorterDirs |-> Absent]
    /\ sorting_analyzer = [d \in SorterDirs |-> Absent]
    /\ report = [d \in SorterDirs |-> Absent]
    /\ phy = [d \in SorterDirs |-> Absent]
    /\ failures = 0
    /\ last = Call("none", <<>>, FALSE, TRUE)
    /\ acq_software = <<"Intan">>

\* no LFP population going on
LfpIdle ==
    /\ session = [start_time |-> 0, end_time |-> 600]
    /\ header = [sample_rate |-> 30000, notch_filter_frequency |-> 0]
    /\ amplifier_channels = <<>>
    /\ probe_info = [port_id |-> "A", used_electrodes |-> <<>>]
    /\ session_info = <<>>
    /\ EphysRawFile = {}
    /\ lfp_pc = "idle"
    /\ lfp_fetched = <<>>
    /\ lfp_computed = <<>>
    /\ lfp_io = [queries |-> 0, loads |-> 0, error |-> "none"]
    /\ LFP = {}
    /\ Trace = {}

\* no call of insert_new_params has been made
ParamIdle ==
    /\ ParamSets = {}
    /\ param_call = <<>>

\* nothing has been curated
CurationIdle ==
    /\ CuratedClustering = {}
    /\ Unit = {}
    /\ curation_call = <<>>

\* no single step is looked at
StepIdle ==
    /\ extensions_params = <<>>
    /\ computable_extensions = <<>>
    /\ analyzer_compute = <<>>
    /\ electrodes_df = <<>>
    /\ si_recording = <<>>

Init == PipelineInit /\ LfpIdle /\ ParamIdle /\ CurationIdle /\ StepIdle

PreProcessingPopulate ==
    /\ \E t \in ClusteringTask, o \in Outcomes : PreProcessingMake(t, o)
    /\ UNCHANGED notPipeline
SIClusteringPopulate ==
    /\ \E t \in ClusteringTask, o \in Outcomes : SIClusteringMake(t, o)
    /\ UNCHANGED notPipeline
PostProcessingPopulate ==
    /\ \E t \in ClusteringTask, o \in Outcomes : PostProcessingMake(t, o)
    /\ UNCHANGED notPipeline
SIExportPopulate ==
    /\ \E t \in ClusteringTask, o \in Outcomes, at \in {"report", "phy", "insert"} :
          SIExportMake(t, o, at)
    /\ UNCHANGED notPipeline

Next ==
    \/ PreProcessingPopulate
    \/ SIClusteringPopulate
    \/ PostProcessingPopulate
    \/ SIExportPopulate

Spec == Init /\ [][Next]_vars

\* populate() is called again and again, and a failure does not recur for
\* ever (failures are bounded by MaxFailures)
FairSpec ==
    /\ Spec
    /\ \A t \in PipelineTasks :
          /\ WF_vars(UNCHANGED notPipeline /\ \E o \in Outcomes : PreProcessingMake(t, o))
          /\ WF_vars(UNCHANGED notPipeline /\ \E o \in Outcomes : SIClusteringMake(t, o))
          /\ WF_vars(UNCHANGED notPipeline /\ \E o \in Outcomes : PostProcessingMake(t, o))

DirOf(t) == SorterDir(clustering_output_dir[t], t)

(***************************************************************************)
(* The pipeline with tasks whose parameter sets lack a required key        *)
(***************************************************************************)
InvalidTasks == { TaskKey("O09", 0, 0, 600, idx) : idx \in 3..5 }

\* a task whose SI_PREPROCESSING_METHOD is not a function of si_preprocessing
UnregisteredTasks == { TaskKey("O09", 0, 0, 600, 6) }

\* one task with a complete configuration next to them
ValidationTasks ==
    { TaskKey("O09", 0, 0, 600, 1) } \cup InvalidTasks \cup UnregisteredTasks

ValidationDirs ==
    { SorterDir(infer_output_dir(t), t) : t \in ValidationTasks }

ValidationInit ==
    /\ ClusteringTask = ValidationTasks
    /\ clustering_output_dir = [t \in ValidationTasks |-> <<>>]
    /\ PreProcessing = {}
    /\ SIClustering = {}
    /\ PostProcessing = {}
    /\ Clustering = {}
    /\ SIExport = {}
    /\ File = {}
    /\ made_dirs = {}
    /\ recording = [d \in ValidationDirs |-> "none"]
    /\ spike_sorting = [d \in ValidationDirs |-> Absent]
    /\ sorting_analyzer = [d \in ValidationDirs |-> Absent]
    /\ report = [d \in ValidationDirs |-> Absent]
    /\ phy = [d \in ValidationDirs |-> Absent]
    /\ failures = 0
    /\ last = Call("none", <<>>, FALSE, TRUE)
    /\ acq_software \in AcquisitionSoftware
    /\ LfpIdle
    /\ ParamIdle
    /\ CurationIdle
    /\ StepIdle

ValidationSpec == ValidationInit /\ [][Next]_vars

(***************************************************************************)
(* CuratedClustering.make                                                  *)
(***************************************************************************)
\* the units of a sorting analyzer
UnitIds == {0, 1}

\* the default key_source: the parent table, Clustering
CuratedClusteringKeySourceByFolder ==
    { t \in ClusteringTask : Exists(ArtifactAt(sorting_analyzer, DirOf(t))) }
CuratedClusteringKeySource == Clustering

\* the lengths of the spike_times, spike_sites and spike_depths a make
\* builds for a unit: units of one or two spikes, and arrays that disagree
Lens == {1, 2}

ArrayLens == [spike_times : Lens, spike_sites : Lens, spike_depths : Lens]

\* what a make can read from an analyzer, unit by unit
SpikeArrays ==
    { [u \in UnitIds |-> IF u = 0 THEN x ELSE y] :
        x \in ArrayLens,
        y \in { a \in ArrayLens : a.spike_times = 2 /\ a.spike_sites = 2 } }

\* assert len(spike_times) == len(spike_sites) == len(spike_depths)
SameLengthTimesSites(a) == a.spike_times = a.spike_sites
SameLength(a) ==
    a.spike_times = a.spike_sites /\ a.spike_sites = a.spike_depths

\* the rows the make appends to units
UnitRows(t, arrays) ==
    { [task |-> t, unit |-> u, spike_times |-> arrays[u].spike_times,
       spike_sites |-> arrays[u].spike_sites,
       spike_depths |-> arrays[u].spike_depths] : u \in UnitIds }

\* the inserts of the make, in the order it makes them
InsertsUnitsFirst(t, units) ==
    << [table |-> "Unit", rows |-> units],
       [table |-> "CuratedClustering", rows |-> {t}] >>
Inserts(t, units) ==
    << [table |-> "CuratedClustering", rows |-> {t}],
       [table |-> "Unit", rows |-> units] >>

\* without the sorting_analyzer folder make raises NotImplementedError, and
\* a folder that is not complete cannot be loaded; the assert of a unit
\* fails before any insert
CuratedClusteringMake(t, arrays) ==
    /\ t \in Pending(CuratedClusteringKeySource, CuratedClustering)
    /\ LET a  == ArtifactAt(sorting_analyzer, DirOf(t))
           readable == Exists(a) /\ a.content = "full"
           ok == readable /\ \A u \in UnitIds : SameLength(arrays[u])
           inserts == IF ok THEN Inserts(t, UnitRows(t, arrays)) ELSE <<>>
           Inserted(table) ==
               UNION { inserts[i].rows :
                         i \in { j \in DOMAIN inserts : inserts[j].table = table } }
       IN  /\ CuratedClustering' = CuratedClustering \cup Inserted("CuratedClustering")
           /\ Unit' = Unit \cup Inserted("Unit")
           /\ curation_call' = [task |-> t,
                                arrays |-> IF readable THEN arrays ELSE <<>>,
                                inserts |-> inserts]
           /\ last' = Call("CuratedClustering", t, FALSE, ok)
    /\ UNCHANGED <<acq_software, ClusteringTask, clustering_output_dir, PreProcessing,
                   SIClustering, PostProcessing, Clustering, SIExport, File,
                   made_dirs, recording, spike_sorting, sorting_analyzer,
                   report, phy, failures>>
    /\ UNCHANGED <<lfpVars, paramVars, stepVars>>

CuratedClusteringPopulate ==
    \E t \in ClusteringTask, arrays \in SpikeArrays :
        CuratedClusteringMake(t, arrays)

\* the pipeline with the aggregation of units
CurationNext ==
    \/ Next
    \/ CuratedClusteringPopulate

\* two tasks that resolve to one directory
CurationTasks ==
    { TaskKey("O09", 0, 0, 600, 1), TaskKey("O09", 0, 30, 600, 1) }

CurationInit ==
    /\ ClusteringTask = CurationTasks
    /\ clustering_output_dir = [t \in CurationTasks |-> <<>>]
    /\ PreProcessing = {}
    /\ SIClustering = {}
    /\ PostProcessing = {}
    /\ Clustering = {}
    /\ SIExport = {}
    /\ File = {}
    /\ made_dirs = {}
    /\ recording = [d \in SorterDirs |-> "none"]
    /\ spike_sorting = [d \in SorterDirs |-> Absent]
    /\ sorting_analyzer = [d \in SorterDirs |-> Absent]
    /\ report = [d \in SorterDirs |-> Absent]
    /\ phy = [d \in SorterDirs |-> Absent]
    /\ failures = 0
    /\ last = Call("none", <<>>, FALSE, TRUE)
    /\ acq_software = <<"Intan">>
    /\ LfpIdle
    /\ ParamIdle
    /\ CurationIdle
    /\ StepIdle

CurationSpec == CurationInit /\ [][CurationNext]_vars

(***************************************************************************)
(* ClusteringTask entries and their inferred directories                   *)
(***************************************************************************)
MaxTasks == 2
MaxInsertion == 1

StartTimes == {0, 30, 60}
EndTimes == {600, 630}

\* declared sessions: the keys of EphysSession
EphysSession ==
    { [organoid_id |-> org, insertion_number |-> ins,
       start_time |-> st, end_time |-> en] :
        org \in Organoids, ins \in 0..MaxInsertion,
        st \in StartTimes, en \in EndTimes }

\* ClusteringTask.auto_generate_entries(ephys_recording_key, paramset_idx)
auto_generate_entries(ephys_recording_key, paramset_idx) ==
    LET key == TaskKey(ephys_recording_key.organoid_id,
                       ephys_recording_key.insertion_number,
                       ephys_recording_key.start_time,
                       ephys_recording_key.end_time, paramset_idx)
        output_dir == infer_output_dir(key)
    IN  /\ Cardinality(ClusteringTask) < MaxTasks
        /\ key \notin ClusteringTask
        /\ made_dirs' = made_dirs \cup {output_dir}
        /\ ClusteringTask' = ClusteringTask \cup {key}
        /\ clustering_output_dir' = (key :> output_dir) @@ clustering_output_dir
        /\ UNCHANGED <<PreProcessing, SIClustering, PostProcessing, Clustering,
                       SIExport, File, recording, spike_sorting,
                       sorting_analyzer, report, phy, failures, last,
                       acq_software>>
        /\ UNCHANGED notPipeline

AutoGenerateEntries ==
    \E k \in EphysSession, idx \in DOMAIN ClusteringParamSet :
        auto_generate_entries(k, idx)

DirInit ==
    /\ ClusteringTask = {}
    /\ clustering_output_dir = <<>>
    /\ PreProcessing = {}
    /\ SIClustering = {}
    /\ PostProcessing = {}
    /\ Clustering = {}
    /\ SIExport = {}
    /\ File = {}
    /\ made_dirs = {}
    /\ recording = [d \in SorterDirs |-> "none"]
    /\ spike_sorting = [d \in SorterDirs |-> Absent]
    /\ sorting_analyzer = [d \in SorterDirs |-> Absent]
    /\ report = [d \in SorterDirs |-> Absent]
    /\ phy = [d \in SorterDirs |-> Absent]
    /\ failures = 0
    /\ last = Call("none", <<>>, FALSE, TRUE)
    /\ acq_software = <<"Intan">>
    /\ LfpIdle
    /\ ParamIdle
    /\ CurationIdle
    /\ StepIdle

DirNext == AutoGenerateEntries

DirSpec == DirInit /\ [][DirNext]_vars

(***************************************************************************)
(* LFP: constants and the probe of the session                             *)
(***************************************************************************)
TARGET_SAMPLING_RATE == 2500
POWERLINE_NOISE_FREQ == 60
MAX_DURATION_MINUTES == 30

\* files in the catalog of one behaviour
MaxFiles == 2

\* end_time of the session (start_time is 0), in seconds: sessions of about
\* half a minute and sessions around the maximum duration
SessionEndTimes == (30..36) \cup {1799, 1800, 1801}

\* header sample rates, in Hz
SampleRates ==
    {1000, 1250, 2500, 2525, 2526, 3750, 29000, 29699, 29700, 30000, 30300, 30301}

NotchFrequencies == {0, 50}

\* file_time of a raw file, and the seconds of data it holds
FileTimes == {0, 10, 35}
FileSeconds == {1, 30, 31}

\* the ports of the acquisition system used here (Port.contents)
Ports == {"A", "B"}

\* probe.ElectrodeConfig.Electrode of the probe type, in the order of the
\* primary key
ElectrodeConfig ==
    << [electrode |-> 0, channel_idx |-> 2],
       [electrode |-> 1, channel_idx |-> 0],
       [electrode |-> 2, channel_idx |-> 1] >>

\* the name "{port}-{channel:03d}" of a channel
ChannelName(port, channel) == <<port, "-", channel>>

\* one entry of data["amplifier_channels"]
Channel(port, channel) ==
    [port_prefix |-> port, native_channel_name |-> ChannelName(port, channel)]

\* data["amplifier_channels"], in row order, of a recording with every
\* channel of port A enabled and one channel of port B
AllChannels ==
    << Channel("A", 0), Channel("A", 1), Channel("A", 2), Channel("B", 0) >>

\* numpy indexes from 0: a[i] for a sequence a
At(a, i) == a[i + 1]

\* np.sort of a sequence of numbers
RECURSIVE Sort(_)
Sort(a) ==
    IF a = <<>> THEN <<>>
    ELSE LET i == CHOOSE i \in DOMAIN a : \A j \in DOMAIN a : a[i] <= a[j]
         IN  <<a[i]>> \o Sort([k \in 1..(Len(a) - 1) |->
                                  IF k < i THEN a[k] ELSE a[k + 1]])

\* the catalog's files with file_time BETWEEN start_time AND end_time,
\* ordered by file_time
RECURSIVE ByFileTime(_)
ByFileTime(files) ==
    IF files = {} THEN <<>>
    ELSE LET f == CHOOSE f \in files : \A g \in files : f.file_time <= g.file_time
         IN  <<f>> \o ByFileTime(files \ {f})

FilesOf(key) ==
    { f \in EphysRawFile :
        key.start_time <= f.file_time /\ f.file_time <= key.end_time }

\* int(np.round(x)) for x = a / b: round half to even
Round(a, b) ==
    LET q == a \div b
        r == a % b
    IN  IF 2 * r < b THEN q
        ELSE IF 2 * r > b THEN q + 1
        ELSE IF q % 2 = 0 THEN q ELSE q + 1

Abs(x) == IF x < 0 THEN -x ELSE x

\* np.isclose(sample_rate / target, factor, rtol=0.01, atol=1e-8):
\* |sample_rate / target - factor| <= 1e-8 + 0.01 * |factor|, with both sides
\* multiplied by 1e8 * target / target (exact for whole sample rates)
IsCloseRtol10(sample_rate, target, factor) ==
    Abs(sample_rate - target * factor) * (100000000 \div target)
        <= 1 + 10000000 * Abs(factor)
IsClose(sample_rate, target, factor) ==
    Abs(sample_rate - target * factor) * (100000000 \div target)
        <= 1 + 1000000 * Abs(factor)

(***************************************************************************)
(* LFP.make_fetch, make_compute, make_insert                               *)
(***************************************************************************)
\* a set of numbers as an ascending sequence
RECURSIVE Ascending(_)
Ascending(S) ==
    IF S = {} THEN <<>>
    ELSE LET x == CHOOSE x \in S : \A y \in S : x <= y
         IN  <<x>> \o Ascending(S \ {x})

\* [ind for ind, ch in enumerate(channels) if ch["port_prefix"] == port]
PortIndices(channels, port) ==
    Ascending({ i - 1 : i \in { j \in DOMAIN channels :
                                  channels[j].port_prefix = port } })

RECURSIVE Sum(_)
Sum(a) == IF a = <<>> THEN 0 ELSE Head(a) + Sum(Tail(a))

Io(queries, loads, error) ==
    [queries |-> queries, loads |-> loads, error |-> error]

\* the gate of make_fetch: assert duration <= MAX_DURATION_MINUTES
DurationGateOff(duration) == TRUE
DurationGate(duration) == ~Less(Minutes(MAX_DURATION_MINUTES), duration)

\* ", ".join of the elements of a list, as tokens
RECURSIVE Join(_)
Join(a) ==
    IF a = <<>> THEN <<>>
    ELSE IF Len(a) = 1 THEN <<ToString(a[1])>>
    ELSE <<ToString(a[1]), ",">> \o Join(Tail(a))

\* str(tuple(a)), as tokens: (0, 1) for two elements, (0,) for one
TupleRepr(a) ==
    IF Len(a) = 1 THEN <<"(", ToString(a[1]), ",", ")">>
    ELSE <<"(">> \o Join(a) \o <<")">>

\* the SQL list "IN (v, v, ...)" of a restriction: values separated by
\* commas; an empty list or a list that ends in a comma is a syntax error
InList(tokens) ==
    LET inner == SubSeq(tokens, 2, Len(tokens) - 1)
    IN  [ok     |-> /\ Len(inner) % 2 = 1
                    /\ \A i \in DOMAIN inner : (i % 2 = 0) <=> (inner[i] = ","),
         values |-> { inner[i] : i \in { j \in DOMAIN inner : j % 2 = 1 } }]

\* probe.ElectrodeConfig.Electrode restricted to used_electrodes
ElectrodeQuery(used) ==
    LET restriction == InList(TupleRepr(used))
        InUse(e) == ToString(e.electrode) \in restriction.values
    IN  IF used # <<>> THEN SelectSeq(ElectrodeConfig, InUse)
        ELSE ElectrodeConfig

\* make is called for the sessions of key_source that have no LFP row; what
\* make_fetch returns is passed on as make_compute(key, *fetched), which
\* raises TypeError when make_fetch returned None
LFPMakeFetch ==
    /\ lfp_pc = "idle"
    /\ session_info # <<>>
    /\ LFP = {}
    /\ LET duration == DivBy60(session.end_time - session.start_time)
           query    == FilesOf(session)
           used     == probe_info.used_electrodes
           electrode_query == ElectrodeQuery(used)
           lfp_indices ==
               [i \in DOMAIN electrode_query |-> electrode_query[i].channel_idx]
       IN  IF ~DurationGate(duration)
           THEN /\ lfp_pc' = "failed"
                /\ lfp_io' = Io(0, 0, "duration")
                /\ lfp_fetched' = <<>>
           ELSE IF query = {}
           THEN /\ lfp_pc' = "failed"
                /\ lfp_io' = Io(1, 0, "unpack")
                /\ lfp_fetched' = <<>>
           ELSE IF used # <<>> /\ ~InList(TupleRepr(used)).ok
           THEN /\ lfp_pc' = "failed"
                /\ lfp_io' = Io(1, 0, "sql")
                /\ lfp_fetched' = <<>>
           ELSE /\ lfp_pc' = "fetched"
                /\ lfp_io' = Io(2, 0, "none")
                /\ lfp_fetched' = [file_paths   |-> ByFileTime(query),
                                   lfp_indices  |-> lfp_indices,
                                   electrode_df |-> electrode_query,
                                   duration     |-> duration]
    /\ UNCHANGED <<lfpInputs, session_info, EphysRawFile, lfp_computed, LFP,
                   Trace>>
    /\ UNCHANGED notLfp

\* the check of the concatenated trace: abs(trace_duration - duration) > 0.5
DurationMismatchOff(trace_duration, duration) == FALSE
DurationMismatch(trace_duration, duration) ==
    GreaterThanHalf(AbsDiff(trace_duration, duration))

\* the files loaded when the load of file `bad` raises OSError (0: none
\* does): the except clause raises again, so that none is used
LoadedBefore(file_paths, bad) ==
    IF bad = 0 THEN file_paths ELSE SubSeq(file_paths, 1, bad - 1)
Loaded(file_paths, bad) == IF bad = 0 THEN file_paths ELSE <<>>

\* `bad` is the file whose load raises OSError (0: none does)
LFPMakeCompute(bad) ==
    /\ lfp_pc = "fetched"
    /\ bad \in 0..Len(lfp_fetched.file_paths)
    /\ LET files == Loaded(lfp_fetched.file_paths, bad)
           lfp_sampling_rate == header.sample_rate
           powerline_noise_freq ==
               IF header.notch_filter_frequency # 0
               THEN header.notch_filter_frequency ELSE POWERLINE_NOISE_FREQ
           downsample_factor == Round(lfp_sampling_rate, TARGET_SAMPLING_RATE)
           port_id == probe_info.port_id
           port_indices == PortIndices(amplifier_channels, port_id)
           lfp_indices ==
               Sort([i \in DOMAIN lfp_fetched.lfp_indices |->
                        At(port_indices, lfp_fetched.lfp_indices[i])])
           HasPort(ch) == ch.port_prefix # ""
           channels ==
               [i \in DOMAIN lfp_indices |->
                   At(SelectSeq(amplifier_channels, HasPort),
                      lfp_indices[i]).native_channel_name]
           channel_to_electrode_map ==
               [c \in { ChannelName(port_id, lfp_fetched.electrode_df[i].channel_idx) :
                          i \in DOMAIN lfp_fetched.electrode_df } |->
                   (CHOOSE e \in { lfp_fetched.electrode_df[i] :
                                     i \in DOMAIN lfp_fetched.electrode_df } :
                        ChannelName(port_id, e.channel_idx) = c).electrode]
           \* every file holds whole seconds of samples
           n_samples == Sum([i \in DOMAIN files |->
                                files[i].seconds * lfp_sampling_rate])
           trace_duration == DivBy60(n_samples \div lfp_sampling_rate)
           Failed(loads, error) ==
               /\ lfp_pc' = "failed"
               /\ lfp_io' = Io(lfp_io.queries, loads, error)
               /\ lfp_computed' = <<>>
       IN  IF bad = 1 THEN Failed(1, "read")
           ELSE IF ~IsClose(lfp_sampling_rate, TARGET_SAMPLING_RATE,
                            downsample_factor)
           THEN Failed(1, "ratio")
           ELSE IF \E i \in DOMAIN lfp_fetched.lfp_indices :
                     lfp_fetched.lfp_indices[i] >= Len(port_indices)
           THEN Failed(1, "index")
           ELSE IF files = <<>> THEN Failed(bad, "read")
           ELSE IF DurationMismatch(trace_duration, lfp_fetched.duration)
           THEN Failed(Len(files), "mismatch")
           ELSE /\ lfp_pc' = "computed"
                /\ lfp_io' = Io(lfp_io.queries, Len(files), "none")
                /\ lfp_computed' =
                     [all_lfps |-> lfp_indices,
                      channels |-> channels,
                      channel_to_electrode_map |-> channel_to_electrode_map,
                      n_samples |-> n_samples,
                      lfp_sampling_rate |-> lfp_sampling_rate,
                      downsample_factor |-> downsample_factor,
                      powerline_noise_freq |-> powerline_noise_freq]
    /\ UNCHANGED <<lfpInputs, session_info, EphysRawFile, lfp_fetched, LFP,
                   Trace>>
    /\ UNCHANGED notLfp

\* channel_to_electrode_map[ch_idx]
LookupAny(channel_to_electrode_map, ch_idx) ==
    channel_to_electrode_map[CHOOSE c \in DOMAIN channel_to_electrode_map : TRUE]
Lookup(channel_to_electrode_map, ch_idx) == channel_to_electrode_map[ch_idx]

\* the rows of all_lfps stand for the samples of the raw rows they were
\* filtered and decimated from; a channel that is no key of
\* channel_to_electrode_map raises KeyError and the transaction is rolled back
LFPMakeInsert ==
    /\ lfp_pc = "computed"
    /\ IF \A i \in DOMAIN lfp_computed.channels :
            lfp_computed.channels[i] \in DOMAIN lfp_computed.channel_to_electrode_map
       THEN /\ lfp_pc' = "done"
            /\ LFP' = {[lfp_sampling_rate |-> TARGET_SAMPLING_RATE]}
            /\ Trace' = { [electrode |->
                             Lookup(lfp_computed.channel_to_electrode_map,
                                    lfp_computed.channels[i]),
                           lfp |-> lfp_computed.all_lfps[i]] :
                          i \in DOMAIN lfp_computed.channels }
            /\ UNCHANGED lfp_io
       ELSE /\ lfp_pc' = "failed"
            /\ lfp_io' = Io(lfp_io.queries, lfp_io.loads, "key")
            /\ UNCHANGED <<LFP, Trace>>
    /\ UNCHANGED <<lfpInputs, session_info, EphysRawFile, lfp_fetched,
                   lfp_computed>>
    /\ UNCHANGED notLfp

\* populate returns after a make that raised: the session has no LFP row and
\* is picked up again by the next call
LFPReturn ==
    /\ lfp_pc = "failed"
    /\ lfp_pc' = "idle"
    /\ lfp_fetched' = <<>>
    /\ lfp_io' = Io(0, 0, "none")
    /\ UNCHANGED <<lfpInputs, session_info, EphysRawFile, lfp_computed, LFP,
                   Trace>>
    /\ UNCHANGED notLfp

\* EphysSessionInfo.make: the header of the first file of the session
EphysSessionInfoMake ==
    /\ lfp_pc = "idle"
    /\ session_info = <<>>
    /\ IF FilesOf(session) = {}
       THEN UNCHANGED session_info
       ELSE session_info' = header
    /\ UNCHANGED <<lfpInputs, EphysRawFile, lfp_pc, lfp_fetched, lfp_computed,
                   lfp_io, LFP, Trace>>
    /\ UNCHANGED notLfp

\* a raw file is cataloged (EphysRawFile is a Manual table)
InsertRawFile(file_time, seconds) ==
    /\ lfp_pc = "idle"
    /\ Cardinality(EphysRawFile) < MaxFiles
    /\ \A f \in EphysRawFile : f.file_time # file_time
    /\ EphysRawFile' = EphysRawFile \cup
                         {[file_time |-> file_time, seconds |-> seconds]}
    /\ UNCHANGED <<lfpInputs, session_info, lfp_pc, lfp_fetched, lfp_computed,
                   lfp_io, LFP, Trace>>
    /\ UNCHANGED notLfp

\* a row of the catalog is deleted
DeleteRawFile ==
    /\ lfp_pc = "idle"
    /\ \E f \in EphysRawFile : EphysRawFile' = EphysRawFile \ {f}
    /\ UNCHANGED <<lfpInputs, session_info, lfp_pc, lfp_fetched, lfp_computed,
                   lfp_io, LFP, Trace>>
    /\ UNCHANGED notLfp

CatalogRawFile ==
    \E ft \in FileTimes, secs \in FileSeconds : InsertRawFile(ft, secs)

LFPCompute == \E bad \in 0..MaxFiles : LFPMakeCompute(bad)

LfpInit ==
    /\ PipelineInit
    /\ session \in { [start_time |-> 0, end_time |-> e] : e \in SessionEndTimes }
    /\ header \in [sample_rate : SampleRates,
                   notch_filter_frequency : NotchFrequencies]
    /\ amplifier_channels = AllChannels
    /\ probe_info = [port_id |-> "A", used_electrodes |-> <<>>]
    /\ session_info = <<>>
    /\ EphysRawFile = {}
    /\ lfp_pc = "idle"
    /\ lfp_fetched = <<>>
    /\ lfp_computed = <<>>
    /\ lfp_io = Io(0, 0, "none")
    /\ LFP = {}
    /\ Trace = {}
    /\ ParamIdle
    /\ CurationIdle
    /\ StepIdle

LfpNext ==
    \/ CatalogRawFile
    \/ DeleteRawFile
    \/ EphysSessionInfoMake
    \/ LFPMakeFetch
    \/ LFPCompute
    \/ LFPMakeInsert
    \/ LFPReturn

LfpSpec == LfpInit /\ [][LfpNext]_vars

(***************************************************************************)
(* LFP over the probes and channel layouts of a session                    *)
(***************************************************************************)
\* an electrode ID that is not in ElectrodeConfig
UnknownElectrode == 9

\* used_electrodes of EphysSessionProbe: <<>> (null), or a list of IDs
UsedElectrodes ==
    { Ascending(S) : S \in SUBSET {0, 1, 2, UnknownElectrode} }

\* native channels of port A that a recording can have enabled
NativeChannels == 0..3

\* data["amplifier_channels"]: the enabled channels of port A in native
\* order, and a channel of port B before or after them; and a recording
\* with the channels of port A in reverse order
ChannelLayouts ==
    LET A(S) == [i \in 1..Cardinality(S) |-> Channel("A", Ascending(S)[i])]
    IN  UNION { { A(S) \o <<Channel("B", 0)>>, <<Channel("B", 0)>> \o A(S) } :
                S \in (SUBSET NativeChannels) \ {{}} }
        \cup { << Channel("A", 2), Channel("A", 1), Channel("A", 0),
                  Channel("B", 0) >> }

ChanInit ==
    /\ PipelineInit
    /\ session = [start_time |-> 0, end_time |-> 30]
    /\ header = [sample_rate |-> 30000, notch_filter_frequency |-> 0]
    /\ amplifier_channels \in ChannelLayouts
    /\ probe_info \in [port_id : {"A"}, used_electrodes : UsedElectrodes]
    /\ session_info = <<>>
    /\ EphysRawFile = {}
    /\ lfp_pc = "idle"
    /\ lfp_fetched = <<>>
    /\ lfp_computed = <<>>
    /\ lfp_io = Io(0, 0, "none")
    /\ LFP = {}
    /\ Trace = {}
    /\ ParamIdle
    /\ CurationIdle
    /\ StepIdle

ChanSpec == ChanInit /\ [][LfpNext]_vars

(***************************************************************************)
(* ClusteringParamSet.insert_new_params.  Strings that take part in a hash *)
(* are sequences of pieces, so that their concatenation can be computed.   *)
(***************************************************************************)
\* the largest paramset_idx of a behaviour
MaxParamsetIdx == 2

\* paramset_idx = None, the default of the argument
None == -1

\* the keys of the params of the calls, in the order sorted() gives them
ParamKeys == << <<"a">>, <<"a", "b">>, <<"clustering_method">> >>

\* the params of the calls: {}, {"a": "bc"}, {"ab": "c"} and
\* {"clustering_method": "kilosort3"}
ParamDicts ==
    { <<>>,
      <<"a">> :> <<"b", "c">>,
      <<"a", "b">> :> <<"c">>,
      <<"clustering_method">> :> <<"kilosort3">> }

ParamMethods == { <<"kilosort2", ".", "5">>, <<"kilosort3">> }

ParamDescs == {"default"}

\* dict_to_uuid(key): the md5 of str(k) and str(v) of the items of key, taken
\* in the order of the sorted keys; the hash is the text that is digested
RECURSIVE Digested(_, _)
Digested(key, i) ==
    IF i > Len(ParamKeys) THEN <<>>
    ELSE (IF ParamKeys[i] \in DOMAIN key
          THEN ParamKeys[i] \o key[ParamKeys[i]] ELSE <<>>)
         \o Digested(key, i + 1)

dict_to_uuid(key) == Digested(key, 1)

\* {**params, "clustering_method": clustering_method}
WithMethod(params, clustering_method) ==
    [k \in DOMAIN params \cup {<<"clustering_method">>} |->
        IF k = <<"clustering_method">> THEN clustering_method ELSE params[k]]

ParamSetHashOfParams(params, clustering_method) == dict_to_uuid(params)
ParamSetHash(params, clustering_method) ==
    dict_to_uuid(WithMethod(params, clustering_method))

\* existing_paramset_idx == paramset_idx
SameIdxNever(existing_paramset_idx, paramset_idx) == FALSE
SameIdxAlways(existing_paramset_idx, paramset_idx) == TRUE
SameIdx(existing_paramset_idx, paramset_idx) ==
    existing_paramset_idx = paramset_idx

\* max(paramset_idx) of the table, 0 for an empty one
MaxIdxByCount(table) == Cardinality(table)
MaxIdx(table) ==
    IF table = {} THEN 0
    ELSE CHOOSE n \in { r.paramset_idx : r \in table } :
             \A r \in table : r.paramset_idx <= n

\* result is "return" (job done), "exists" and "idx" (DataJointError), or
\* "inserted"
insert_new_params(clustering_method, paramset_desc, params, paramset_idx) ==
    LET idx  == IF paramset_idx = None THEN MaxIdx(ParamSets) + 1
                ELSE paramset_idx
        param_dict ==
            [clustering_method |-> clustering_method,
             paramset_idx      |-> idx,
             paramset_desc     |-> paramset_desc,
             params            |-> params,
             param_set_hash    |-> ParamSetHash(params, clustering_method)]
        param_query ==
            { r \in ParamSets : r.param_set_hash = param_dict.param_set_hash }
        Result(result) ==
            param_call' = [clustering_method |-> clustering_method,
                           params            |-> params,
                           paramset_idx      |-> paramset_idx,
                           result            |-> result]
    IN  /\ idx <= MaxParamsetIdx
        /\ IF param_query # {}
           THEN LET existing_paramset_idx ==
                        (CHOOSE r \in param_query : TRUE).paramset_idx
                IN  IF SameIdx(existing_paramset_idx, idx)
                    THEN Result("return") /\ UNCHANGED ParamSets
                    ELSE Result("exists") /\ UNCHANGED ParamSets
           ELSE IF \E r \in ParamSets : r.paramset_idx = idx
                THEN Result("idx") /\ UNCHANGED ParamSets
                ELSE /\ ParamSets' = ParamSets \cup {param_dict}
                     /\ Result("inserted")
        /\ UNCHANGED <<pipelineVars, lfpVars, curationVars, stepVars>>

InsertNewParams ==
    \E clustering_method \in ParamMethods, paramset_desc \in ParamDescs,
       params \in ParamDicts, paramset_idx \in {None} \cup (1..MaxParamsetIdx) :
        insert_new_params(clustering_method, paramset_desc, params, paramset_idx)

ParamInit == PipelineInit /\ LfpIdle /\ ParamIdle /\ CurationIdle /\ StepIdle

ParamNext == InsertNewParams

ParamSpec == ParamInit /\ [][ParamNext]_vars

(***************************************************************************)
(* PostProcessing.make: the extensions the analyzer is asked to compute    *)
(***************************************************************************)
\* names of extensions
ExtensionNames ==
    {"random_spikes", "templates", "spike_locations", "quality_metrics"}

\* the parameters a params dictionary gives for an extension
ExtensionParams == {"default", "custom"}

\* the sequences that list the elements of S once each
Orders(S) ==
    { f \in [1..Cardinality(S) -> S] :
        \A i, j \in 1..Cardinality(S) : f[i] = f[j] => i = j }

\* {ext_name: extensions_params[ext_name]
\*  for ext_name in sorting_analyzer.get_computable_extensions()
\*  if ext_name in extensions_params}; a dict keeps the order of insertion
ExtensionsAllComputable(computable, params) ==
    [i \in DOMAIN computable |->
        [ext_name |-> computable[i],
         params |-> IF computable[i] \in DOMAIN params
                    THEN params[computable[i]] ELSE "default"]]

ExtensionsToCompute(computable, params) ==
    LET requested == SelectSeq(computable, LAMBDA name : name \in DOMAIN params)
    IN  [i \in DOMAIN requested |->
            [ext_name |-> requested[i], params |-> params[requested[i]]]]

\* _sorting_analyzer_compute, from the analyzer on
SortingAnalyzerCompute ==
    /\ analyzer_compute = <<>>
    /\ analyzer_compute' =
          << ExtensionsToCompute(computable_extensions, extensions_params) >>
    /\ UNCHANGED <<extensions_params, computable_extensions, electrodes_df,
                   si_recording>>
    /\ UNCHANGED <<pipelineVars, lfpVars, paramVars, curationVars>>

ExtInit ==
    /\ PipelineInit
    /\ LfpIdle
    /\ ParamIdle
    /\ CurationIdle
    /\ extensions_params \in
          UNION { [S -> ExtensionParams] : S \in SUBSET ExtensionNames }
    /\ computable_extensions \in
          UNION { Orders(S) : S \in SUBSET ExtensionNames }
    /\ analyzer_compute = <<>>
    /\ electrodes_df = <<>>
    /\ si_recording = <<>>

ExtNext == SortingAnalyzerCompute

ExtSpec == ExtInit /\ [][ExtNext]_vars

(***************************************************************************)
(* PreProcessing.make: the channels of the recording                       *)
(***************************************************************************)
\* the electrode IDs of an electrode_config, in ascending order: numbered
\* from 0, numbered from 1, and with gaps
ElectrodeNumberings == { <<0, 1, 2>>, <<1, 2, 3>>, <<0, 2, 5>> }

\* the electrodes, ordered by electrode, with the channel each is wired to
ElectrodeFrames ==
    UNION { { [i \in DOMAIN ids |-> [electrode |-> ids[i], channel_idx |-> wiring[i]]] :
                wiring \in Orders(0..(Len(ids) - 1)) } :
            ids \in ElectrodeNumberings }

\* the amplifier channels of a recording of port A, one for each electrode
\* of the probe, and one of port B
PortChannels(n) ==
    [i \in 1..n |-> Channel("A", i - 1)] \o << Channel("B", 0) >>

\* unused_electrodes and the channels removed for them: the code takes
\* electrodes_df.channel_idx.iloc[elec], the row at position elec
RowAt(df, elec) == At(df, elec)

\* from the probe information to remove_channels
BuildRecording ==
    /\ electrodes_df # <<>>
    /\ si_recording = <<>>
    /\ LET number_of_electrodes == Len(electrodes_df)
           used_electrodes ==
               IF probe_info.used_electrodes # <<>>
               THEN { probe_info.used_electrodes[i] :
                        i \in DOMAIN probe_info.used_electrodes }
               ELSE 0..(number_of_electrodes - 1)
           unused_electrodes ==
               { elec \in 0..(number_of_electrodes - 1) : elec \notin used_electrodes }
           port_indices == PortIndices(amplifier_channels, probe_info.port_id)
           \* channel_slice(channel_ids[port_indices])
           sliced == [i \in DOMAIN port_indices |->
                         At(amplifier_channels, port_indices[i]).native_channel_name]
           \* set_probe with device_channel_indices = channel_idx
           probed == [i \in DOMAIN electrodes_df |->
                         At(sliced, electrodes_df[i].channel_idx)]
           chn_ids_to_remove ==
               { ChannelName(probe_info.port_id, RowAt(electrodes_df, elec).channel_idx) :
                   elec \in unused_electrodes }
       IN  si_recording' =
               [channel_ids |->
                   SelectSeq(probed, LAMBDA c : c \notin chn_ids_to_remove)]
    /\ UNCHANGED <<extensions_params, computable_extensions, analyzer_compute,
                   electrodes_df>>
    /\ UNCHANGED <<pipelineVars, lfpVars, paramVars, curationVars>>

RecInit ==
    /\ PipelineInit
    /\ ParamIdle
    /\ CurationIdle
    /\ electrodes_df \in ElectrodeFrames
    /\ probe_info \in
          { [port_id |-> "A", used_electrodes |-> Ascending(S)] :
              S \in SUBSET { electrodes_df[i].electrode : i \in DOMAIN electrodes_df } }
    /\ amplifier_channels = PortChannels(Len(electrodes_df))
    /\ session = [start_time |-> 0, end_time |-> 600]
    /\ header = [sample_rate |-> 30000, notch_filter_frequency |-> 0]
    /\ session_info = <<>>
    /\ EphysRawFile = {}
    /\ lfp_pc = "idle"
    /\ lfp_fetched = <<>>
    /\ lfp_computed = <<>>
    /\ lfp_io = Io(0, 0, "none")
    /\ LFP = {}
    /\ Trace = {}
    /\ extensions_params = <<>>
    /\ computable_extensions = <<>>
    /\ analyzer_compute = <<>>
    /\ si_recording = <<>>

RecNext == BuildRecording

RecSpec == RecInit /\ [][RecNext]_vars

(***************************************************************************)
(* The pipeline with tasks whose clustering_output_dir the user has set    *)
(***************************************************************************)
OutputDirTasks ==
    { TaskKey("O09", 0, 0, 600, 1), TaskKey("O09", 0, 0, 600, 2) }

\* a directory given at the insert of the task, relative to the root and
\* present on disk
UserDir(t) == <<t.organoid_id, <<"manual", "_", t.paramset_idx>>>>

OutputDirChoices(t) == { <<>>, UserDir(t) }

OutputDirs ==
    UNION { { SorterDir(infer_output_dir(t), t), SorterDir(UserDir(t), t) } :
              t \in OutputDirTasks }

OutputDirInit ==
    /\ ClusteringTask = OutputDirTasks
    /\ clustering_output_dir \in [OutputDirTasks -> UNION { OutputDirChoices(t) : t \in OutputDirTasks }]
    /\ \A t \in OutputDirTasks : clustering_output_dir[t] \in OutputDirChoices(t)
    /\ PreProcessing = {}
    /\ SIClustering = {}
    /\ PostProcessing = {}
    /\ Clustering = {}
    /\ SIExport = {}
    /\ File = {}
    /\ made_dirs = {}
    /\ recording = [d \in OutputDirs |-> "none"]
    /\ spike_sorting = [d \in OutputDirs |-> Absent]
    /\ sorting_analyzer = [d \in OutputDirs |-> Absent]
    /\ report = [d \in OutputDirs |-> Absent]
    /\ phy = [d \in OutputDirs |-> Absent]
    /\ failures = 0
    /\ last = Call("none", <<>>, FALSE, TRUE)
    /\ acq_software = <<"Intan">>
    /\ LfpIdle
    /\ ParamIdle
    /\ CurationIdle
    /\ StepIdle

OutputDirSpec == OutputDirInit /\ [][Next]_vars

(***************************************************************************)
(* Claims                                                                  *)
(***************************************************************************)
\* C1: StageResults are recorded in the order PreProcessing, SIClustering,
\* PostProcessing, SIExport: a step records a stage's StageResult for a task
\* only if the preceding stage's StageResult is there, and no step removes a
\* StageResult.
C1_StageOrder ==
    [][ /\ \A t \in ClusteringTask :
             /\ t \in SIClustering' \ SIClustering => t \in PreProcessing
             /\ t \in PostProcessing' \ PostProcessing => t \in SIClustering
             /\ t \in SIExport' \ SIExport => t \in PostProcessing
        /\ PreProcessing \subseteq PreProcessing'
        /\ SIClustering \subseteq SIClustering'
        /\ PostProcessing \subseteq PostProcessing'
        /\ SIExport \subseteq SIExport' ]_vars

\* a task has gone through all four stages in a run with failures
C1_Witness == failures > 0 /\ SIExport # {} /\ SIExport \subseteq PreProcessing

\* C2: a task with a PostProcessing StageResult is in the pending set of
\* neither PreProcessing nor SIClustering, and neither make is called for it.
C2_PendingWork ==
    /\ [](\A t \in PostProcessing :
            /\ t \notin Pending(PreProcessingKeySource, PreProcessing)
            /\ t \notin Pending(SIClusteringKeySource, SIClustering))
    /\ [][ \A t \in PostProcessing :
             ~(last'.task = t /\ last'.op \in {"PreProcessing", "SIClustering"})
       ]_vars

\* a task is PostProcessed and the pipeline has been invoked again after it
C2_Witness ==
    \E t \in PostProcessing : last.task # t /\ last.op \in {"PreProcessing", "SIClustering"}

\* C3: SIClustering.make for a task whose sorting folder carries the marker
\* does not run the sorter and leaves the folder as it is.
C3_SortingMemoized ==
    [][ \A t \in ClusteringTask :
          (/\ last'.op = "SIClustering" /\ last'.task = t
           /\ ArtifactAt(spike_sorting, DirOf(t)).marker)
          => (~last'.engine /\ spike_sorting' = spike_sorting) ]_vars

\* SIClustering.make has completed for a task without running the sorter
C3_Witness ==
    /\ last.op = "SIClustering" /\ last.ok /\ ~last.engine
    /\ last.task \in SIClustering

\* C4: a stage is recorded only over artifacts that carry their completion
\* marker: a folder that exists without its marker is computed again, never
\* reused.
C4_MarkerBeforeTrust ==
    \A t \in ClusteringTask :
        /\ t \in SIClustering => ArtifactAt(spike_sorting, DirOf(t)).marker
        /\ t \in PostProcessing => ArtifactAt(sorting_analyzer, DirOf(t)).marker
        /\ t \in SIExport =>
              /\ ParamsOf(t).export_report => ArtifactAt(report, DirOf(t)).marker
              /\ ParamsOf(t).export_to_phy => ArtifactAt(phy, DirOf(t)).marker

\* C5: a marked artifact is the complete product of a run that finished, and
\* no recorded StageResult or manifest row rests on what an aborted run left.
C5_WriteThenPublish ==
    /\ \A d \in SorterDirs :
          \A a \in {spike_sorting[d], sorting_analyzer[d], report[d], phy[d]} :
              a.marker => a.content = "full"
    /\ \A t \in ClusteringTask :
          /\ t \in SIClustering => ArtifactAt(spike_sorting, DirOf(t)).content = "full"
          /\ t \in PostProcessing =>
                ArtifactAt(sorting_analyzer, DirOf(t)).content = "full"
    /\ \A f \in File : f.content = "full"

\* the part of C5 that is about Sorting and PostProcessing alone
SortingAndAnalyzerPublished ==
    /\ \A d \in SorterDirs :
          \A a \in {spike_sorting[d], sorting_analyzer[d], report[d], phy[d]} :
              a.marker => a.content = "full"
    /\ \A t \in ClusteringTask :
          /\ t \in SIClustering => ArtifactAt(spike_sorting, DirOf(t)).content = "full"
          /\ t \in PostProcessing =>
                ArtifactAt(sorting_analyzer, DirOf(t)).content = "full"

\* C6: a failed make records nothing and leaves its task pending; a make is
\* never called for a task whose StageResult of that stage exists; and every
\* task is PostProcessed in the end.
C6_RetryCompletes ==
    /\ [][ ~last'.ok =>
             /\ UNCHANGED <<PreProcessing, SIClustering, PostProcessing,
                            Clustering, SIExport, File, clustering_output_dir>>
             /\ last'.op = "PreProcessing" =>
                   last'.task \in Pending(PreProcessingKeySource, PreProcessing)'
             /\ last'.op = "SIClustering" =>
                   last'.task \in Pending(SIClusteringKeySource, SIClustering)'
             /\ last'.op = "PostProcessing" =>
                   last'.task \in Pending(PostProcessingKeySource, PostProcessing)'
       ]_vars
    /\ [][ /\ last'.op = "PreProcessing" => last'.task \notin PreProcessing
           /\ last'.op = "SIClustering" => last'.task \notin SIClustering
           /\ last'.op = "PostProcessing" => last'.task \notin PostProcessing
       ]_vars
    /\ \A t \in PipelineTasks : <>(t \in PostProcessing)

\* every task is PostProcessed although the failure budget was used up
C6_Witness == failures = MaxFailures /\ PostProcessing = PipelineTasks


\* C7: two distinct ClusteringTasks have distinct inferred output
\* directories, hence distinct artifact folders.
C7_DistinctDirs ==
    \A a \in ClusteringTask : \A b \in ClusteringTask :
        a # b =>
          /\ infer_output_dir(a) # infer_output_dir(b)
          /\ clustering_output_dir[a] # clustering_output_dir[b]
          /\ SorterDir(clustering_output_dir[a], a) # SorterDir(clustering_output_dir[b], b)

\* what infer_output_dir does tell apart: tasks that differ in the
\* experiment, in the minute of start_time or end_time, or in paramset_idx
DirsDistinctUpToMinute ==
    \A a \in ClusteringTask : \A b \in ClusteringTask :
        (\/ a.organoid_id # b.organoid_id
         \/ a.start_time \div 60 # b.start_time \div 60
         \/ a.end_time \div 60 # b.end_time \div 60
         \/ a.paramset_idx # b.paramset_idx)
        => clustering_output_dir[a] # clustering_output_dir[b]

SessionSeconds == session.end_time - session.start_time

\* C8: a session longer than 30 minutes fails in make_fetch before the
\* catalog is queried or a file is loaded and gets no LFP or Trace row; a
\* session of up to 30 minutes, exactly 30 included, passes the gate.
C8_DurationGate ==
    /\ SessionSeconds > 60 * MAX_DURATION_MINUTES =>
          /\ lfp_pc \in {"idle", "failed"}
          /\ lfp_io.queries = 0 /\ lfp_io.loads = 0
          /\ LFP = {} /\ Trace = {}
    /\ (SessionSeconds <= 60 * MAX_DURATION_MINUTES /\ lfp_pc # "idle") =>
          lfp_io.queries > 0 /\ lfp_io.error # "duration"

\* a session of 30 minutes and one second, with files in its window, has
\* been rejected
C8_Witness ==
    /\ SessionSeconds = 60 * MAX_DURATION_MINUTES + 1
    /\ FilesOf(session) # {}
    /\ lfp_pc = "failed" /\ lfp_io.error = "duration"

\* the integers nearest to sample_rate / 2500
NearestFactors ==
    LET sr == header.sample_rate
        K  == 0..(sr \div TARGET_SAMPLING_RATE + 1)
    IN  { k \in K : \A j \in K :
            Abs(sr - TARGET_SAMPLING_RATE * k) <= Abs(sr - TARGET_SAMPLING_RATE * j) }

\* |sr / 2500 - k| <= 0.01 * k
WithinOnePercent(k) ==
    100 * Abs(header.sample_rate - TARGET_SAMPLING_RATE * k)
        <= TARGET_SAMPLING_RATE * k

\* C9: with r = round(sample_rate / 2500): if |sample_rate / 2500 - r| <=
\* 0.01 * r, make_compute uses downsample_factor = r and does not fail on the
\* ratio; otherwise it fails on the ratio once the first file is loaded and
\* nothing is computed or stored.
C9_RatioGate ==
    IF \E k \in NearestFactors : WithinOnePercent(k)
    THEN /\ lfp_io.error # "ratio"
         /\ lfp_pc \in {"computed", "done"} =>
               /\ lfp_computed.downsample_factor \in NearestFactors
               /\ WithinOnePercent(lfp_computed.downsample_factor)
    ELSE /\ lfp_pc \notin {"computed", "done"}
         /\ lfp_io.error # "mismatch"
         /\ (lfp_pc = "failed" /\ lfp_io.loads >= 1 /\ lfp_io.error # "read")
               => lfp_io.error = "ratio"
         /\ LFP = {} /\ Trace = {}

\* 30300 Hz, the upper end of the tolerance around factor 12, is accepted
C9_Witness ==
    /\ header.sample_rate = 30300
    /\ lfp_pc = "computed"
    /\ lfp_computed.downsample_factor = 12

\* 29000 Hz is rejected
RatioRejected ==
    header.sample_rate = 29000 /\ lfp_pc = "failed" /\ lfp_io.error = "ratio"

\* the seconds of data in the files make_fetch selected
TraceSeconds ==
    Sum([i \in DOMAIN lfp_fetched.file_paths |-> lfp_fetched.file_paths[i].seconds])

\* all files were loaded and the ratio was accepted
Concatenated ==
    /\ lfp_pc \in {"failed", "computed", "done"}
    /\ lfp_io.error \in {"none", "mismatch"}
    /\ lfp_io.loads >= 1

\* C10: after concatenation the computation fails, and stores nothing, if the
\* trace duration differs from the session duration by more than 0.5 minutes;
\* a difference of at most 0.5 minutes, exactly 0.5 included, is accepted.
C10_ConsistencyGate ==
    Concatenated =>
        IF Abs(TraceSeconds - SessionSeconds) > 30
        THEN lfp_io.error = "mismatch" /\ LFP = {} /\ Trace = {}
        ELSE lfp_io.error = "none"

\* the gate away from its boundary: a second more than 0.5 minutes is
\* rejected, a second less is accepted
ConsistencyGateOffBoundary ==
    Concatenated =>
        /\ Abs(TraceSeconds - SessionSeconds) >= 31 =>
              lfp_io.error = "mismatch" /\ LFP = {} /\ Trace = {}
        /\ Abs(TraceSeconds - SessionSeconds) <= 29 => lfp_io.error = "none"

\* a difference of exactly 0.5 minutes that is accepted
BoundaryAccepted ==
    /\ Concatenated /\ lfp_io.error = "none"
    /\ Abs(TraceSeconds - SessionSeconds) = 30

\* C11: a call of LFP's make for a session that has no raw file in its window
\* is a skip: it raises no error and inserts no LFP or Trace row.
C11_SkipNotFailure ==
    [][ (/\ lfp_pc = "idle" /\ lfp_pc' # "idle"
         /\ FilesOf(session) = {}
         /\ SessionSeconds <= 60 * MAX_DURATION_MINUTES)
        => (lfp_io'.error = "none" /\ LFP' = {} /\ Trace' = {}) ]_vars

\* the call that finds no file stores nothing and leaves the session without
\* an LFP row, so that it is in key_source - LFP for the next call
SkipLeavesPending ==
    lfp_io.error = "unpack" =>
        /\ lfp_pc = "failed" /\ FilesOf(session) = {}
        /\ LFP = {} /\ Trace = {}

\* a session that is not in key_source (no EphysSessionInfo row) is not made
NotInKeySourceNotMade ==
    session_info = <<>> => lfp_pc = "idle" /\ LFP = {} /\ Trace = {}

\* the electrodes of the probe's electrode_config
ConfigElectrodes == { ElectrodeConfig[i].electrode : i \in DOMAIN ElectrodeConfig }

\* used_electrodes of the session, as a set
UsedSet ==
    { probe_info.used_electrodes[i] : i \in DOMAIN probe_info.used_electrodes }

\* the electrodes that make_fetch resolved
Resolved ==
    { lfp_fetched.electrode_df[i].electrode : i \in DOMAIN lfp_fetched.electrode_df }

\* C12: with used_electrodes absent the resolved electrodes are all the
\* electrodes of the electrode_config; with a non-empty subset of them, of any
\* size, resolution succeeds and yields exactly that subset; and the
\* channel-to-electrode mapping is one-to-one over the selected electrodes.
C12_ResolverBijection ==
    UsedSet \subseteq ConfigElectrodes =>
        /\ lfp_io.error # "sql"
        /\ lfp_pc = "fetched" =>
              Resolved = IF UsedSet = {} THEN ConfigElectrodes ELSE UsedSet
        /\ lfp_pc = "computed" =>
              LET map == lfp_computed.channel_to_electrode_map
              IN  /\ \A c1, c2 \in DOMAIN map : map[c1] = map[c2] => c1 = c2
                  /\ { map[c] : c \in DOMAIN map } = Resolved

\* the resolver for used_electrodes absent or a list of two or more known IDs
ResolverExactForLists ==
    (UsedSet \subseteq ConfigElectrodes /\ Cardinality(UsedSet) # 1) =>
        /\ lfp_io.error # "sql"
        /\ lfp_pc = "fetched" =>
              Resolved = IF UsedSet = {} THEN ConfigElectrodes ELSE UsedSet
        /\ lfp_pc = "computed" =>
              LET map == lfp_computed.channel_to_electrode_map
              IN  /\ \A c1, c2 \in DOMAIN map : map[c1] = map[c2] => c1 = c2
                  /\ { map[c] : c \in DOMAIN map } = Resolved

\* a subset of two electrodes has been resolved
SubsetResolved ==
    lfp_pc = "fetched" /\ UsedSet = {0, 2} /\ Resolved = {0, 2}

\* C13: when used_electrodes holds an ID that is not in the electrode_config,
\* channel resolution fails: nothing is resolved, computed or stored for the
\* remaining electrodes.
C13_UnknownElectrodeFatal ==
    UnknownElectrode \in UsedSet =>
        /\ lfp_pc \notin {"fetched", "computed", "done"}
        /\ LFP = {} /\ Trace = {}

\* an LFP stored for the known electrodes of a list that holds an unknown ID
UnknownElectrodeDropped ==
    /\ UsedSet = {0, 1, UnknownElectrode}
    /\ lfp_pc = "done"
    /\ { t.electrode : t \in Trace } = {0, 1}

\* the paramset_idx a call asks for: the next free one when none is given
AskedIdx(call, table) ==
    IF call.paramset_idx = None THEN MaxIdx(table) + 1 ELSE call.paramset_idx

\* C14: a call of insert_new_params with a (method, params) pair that is
\* stored, and with the paramset_idx it is stored under, raises no error and
\* leaves the table unchanged.
C14_IdenticalIsNoOp ==
    [][ (\E r \in ParamSets :
            /\ r.clustering_method = param_call'.clustering_method
            /\ r.params = param_call'.params
            /\ r.paramset_idx = param_call'.paramset_idx)
        => (param_call'.result = "return" /\ ParamSets' = ParamSets) ]_vars

\* the identical request has been made
C14_Witness ==
    /\ param_call # <<>>
    /\ param_call.result = "return"
    /\ \E r \in ParamSets :
          /\ r.clustering_method = param_call.clustering_method
          /\ r.params = param_call.params
          /\ r.paramset_idx = param_call.paramset_idx

\* C15: a call of insert_new_params with a (method, params) pair whose hash
\* is stored under another paramset_idx raises the conflict error and leaves
\* the table unchanged.
C15_OtherIdxConflicts ==
    [][ (\E r \in ParamSets :
            /\ r.param_set_hash =
                  dict_to_uuid(WithMethod(param_call'.params,
                                          param_call'.clustering_method))
            /\ r.paramset_idx # AskedIdx(param_call', ParamSets))
        => (param_call'.result = "exists" /\ ParamSets' = ParamSets) ]_vars

\* the conflicting request has been made with an explicit index
C15_Witness ==
    /\ param_call # <<>>
    /\ param_call.result = "exists"
    /\ param_call.paramset_idx # None
    /\ \E r \in ParamSets :
          /\ r.params = param_call.params
          /\ r.clustering_method = param_call.clustering_method
          /\ r.paramset_idx # param_call.paramset_idx

\* C16: no two stored parameter sets have the same hash, and the hash of each
\* is the hash of its own params and method.
C16_HashUnique ==
    /\ \A r1, r2 \in ParamSets :
          r1.param_set_hash = r2.param_set_hash => r1 = r2
    /\ \A r \in ParamSets :
          r.param_set_hash = dict_to_uuid(WithMethod(r.params, r.clustering_method))

\* two sets are stored and the latest call failed
C16_Witness ==
    /\ Cardinality(ParamSets) = 2
    /\ param_call # <<>>
    /\ param_call.result \in {"exists", "idx"}

\* C17: Unit rows exist for a task only if the task's PostProcessing
\* StageResult exists, whatever folders are on disk.
C17_UnitsAfterPostProcessing ==
    \A u \in Unit : u.task \in PostProcessing /\ u.task \in CuratedClustering

\* the units of one task are stored while another task, which resolves to
\* the same sorting_analyzer folder, has no PostProcessing StageResult
C17_Witness ==
    \E t1, t2 \in ClusteringTask :
        /\ t1 # t2
        /\ \E u \in Unit : u.task = t1
        /\ t2 \notin PostProcessing
        /\ clustering_output_dir[t2] # <<>>
        /\ DirOf(t2) = DirOf(t1)
        /\ Exists(ArtifactAt(sorting_analyzer, DirOf(t2)))

\* C18: a task has a Clustering record if and only if it has a
\* PostProcessing StageResult.
C18_ClusteringIffPostProcessing == Clustering = PostProcessing

\* PostProcessing has succeeded for one task and has failed for another one
\* after its analyzer was written
C18_Witness ==
    /\ PostProcessing # {}
    /\ \E t \in ClusteringTask :
          /\ t \notin PostProcessing
          /\ clustering_output_dir[t] # <<>>
          /\ ArtifactAt(sorting_analyzer, DirOf(t)).content = "full"
          /\ last = Call("PostProcessing", t, TRUE, FALSE)

\* the row of an electrode in the electrode_config
ChannelIdxOf(electrode) ==
    (CHOOSE i \in DOMAIN ElectrodeConfig :
         ElectrodeConfig[i].electrode = electrode)

\* C19: a completed LFP computation has stored exactly one Trace per selected
\* electrode, and the electrode of each Trace is the one whose channel_idx is
\* the native channel, on the session's port, of the raw row the trace was
\* extracted from.
C19_TracePerElectrode ==
    lfp_pc = "done" =>
        /\ { t.electrode : t \in Trace } = Resolved
        /\ Cardinality(Trace) = Cardinality(Resolved)
        /\ \A t \in Trace :
              amplifier_channels[t.lfp + 1] =
                  [port_prefix |-> probe_info.port_id,
                   native_channel_name |->
                       <<probe_info.port_id, "-",
                         ElectrodeConfig[ChannelIdxOf(t.electrode)].channel_idx>>]

\* a completed computation on a recording whose port B channel comes first
\* and which has a channel enabled that no electrode uses
C19_Witness ==
    /\ lfp_pc = "done"
    /\ Cardinality(Trace) = 2
    /\ amplifier_channels[1].port_prefix = "B"
    /\ Len(amplifier_channels) = 5

\* C20: for a task whose params lack one of the three required keys,
\* PreProcessing creates no directory, does not update the task's
\* clustering_output_dir, writes no recording and records no StageResult.
C20_ValidationFirst ==
    \A t \in InvalidTasks :
        LET output_dir == infer_output_dir(t)
            sd == SorterDir(output_dir, t)
        IN  /\ t \notin PreProcessing
            /\ clustering_output_dir[t] = <<>>
            /\ output_dir \notin made_dirs
            /\ <<sd, "recording">> \notin made_dirs
            /\ recording[sd] = "none"

\* PreProcessing.make has been called for such a task and has raised
C20_Witness ==
    \E t \in InvalidTasks :
        /\ last = Call("PreProcessing", t, FALSE, FALSE)
        /\ "SI_SORTING_PARAMS" \notin ParamsOf(t).keys

\* C21: a task whose SI_PREPROCESSING_METHOD is not a function of
\* si_preprocessing, and any task while the acquisition software has no
\* extractor, has no recording at its path and no PreProcessing row, and is
\* still pending for PreProcessing.
C21_UnsupportedConfig ==
    \A t \in ClusteringTask :
        ( \/ acq_key(acq_software) \notin recording_extractor_full_dict
          \/ /\ "SI_PREPROCESSING_METHOD" \in ParamsOf(t).keys
             /\ ParamsOf(t).SI_PREPROCESSING_METHOD \notin si_preprocessing )
        => /\ t \notin PreProcessing
           /\ RecordingAt(SorterDir(infer_output_dir(t), t)) = "none"
           /\ clustering_output_dir[t] = <<>>
           /\ t \in Pending(PreProcessingKeySource, PreProcessing)

\* PreProcessing.make has been called for a task with the unregistered
\* function and has raised after creating the recording directory
C21_Witness ==
    \E t \in UnregisteredTasks :
        /\ last = Call("PreProcessing", t, FALSE, FALSE)
        /\ <<SorterDir(infer_output_dir(t), t), "recording">> \in made_dirs
        /\ acq_key(acq_software) \in recording_extractor_full_dict

\* the same for a task with a registered function under an acquisition
\* software without extractor
UnsupportedSoftwareRaised ==
    \E t \in PipelineTasks :
        /\ last = Call("PreProcessing", t, FALSE, FALSE)
        /\ <<SorterDir(infer_output_dir(t), t), "recording">> \in made_dirs
        /\ acq_software = <<"Trodes">>

C23_ReadErrorAborts ==
    /\ lfp_io.error = "read" =>
          /\ lfp_pc = "failed"
          /\ LFP = {}
          /\ Trace = {}
          /\ lfp_computed = <<>>
    /\ LFP # {} \/ Trace # {} =>
          /\ lfp_pc = "done"
          /\ lfp_io.error = "none"
          /\ lfp_io.loads = Len(lfp_fetched.file_paths)

\* the load of the second file has raised after the first was loaded
C23_Witness ==
    /\ lfp_pc = "failed"
    /\ lfp_io.error = "read"
    /\ lfp_io.loads = 2
    /\ Len(lfp_fetched.file_paths) = 2

\* the load of the first file has raised
FirstLoadRaised ==
    /\ lfp_pc = "failed"
    /\ lfp_io.error = "read"
    /\ lfp_io.loads = 1

\* what is recorded and kept for a task: its StageResults, its manifest
\* rows, its clustering_output_dir and the artifacts of its directory
TaskState(u) ==
    [rows |-> << u \in PreProcessing, u \in SIClustering, u \in PostProcessing,
                 u \in Clustering, u \in SIExport >>,
     files |-> { f \in File : f.task = u },
     output_dir |-> clustering_output_dir[u],
     artifacts |-> IF clustering_output_dir[u] = <<>> THEN <<>>
                   ELSE << RecordingAt(DirOf(u)),
                           ArtifactAt(spike_sorting, DirOf(u)),
                           ArtifactAt(sorting_analyzer, DirOf(u)),
                           ArtifactAt(report, DirOf(u)),
                           ArtifactAt(phy, DirOf(u)) >>]

\* C24: a make that fails for one task leaves the StageResults, the
\* clustering_output_dir and the artifacts of every other task as they were.
C24_FailureFrame ==
    [][ ~last'.ok =>
          \A u \in ClusteringTask \ {last'.task} : TaskState(u)' = TaskState(u)
      ]_vars

\* the same for the other tasks that do not resolve to the directory of the
\* task that failed
FailureFrameOtherDirs ==
    [][ ~last'.ok =>
          \A u \in ClusteringTask \ {last'.task} :
              clustering_output_dir[u] # clustering_output_dir'[last'.task]
                  => TaskState(u)' = TaskState(u)
      ]_vars

\* and the rows and the clustering_output_dir of the other tasks in any case
FailureFrameRows ==
    [][ ~last'.ok =>
          \A u \in ClusteringTask \ {last'.task} :
              /\ TaskState(u)'.rows = TaskState(u).rows
              /\ TaskState(u)'.files = TaskState(u).files
              /\ TaskState(u)'.output_dir = TaskState(u).output_dir
      ]_vars

\* C25: a make of CuratedClustering that finds a unit whose spike_times,
\* spike_sites and spike_depths differ in length inserts nothing, for the
\* task or its units; a make that inserts inserts the CuratedClustering row
\* first and then the rows of all units in one insert, so that a stored unit
\* has arrays of one length and the units of a curated task are all stored.
C25_UnitArraysAgree ==
    /\ \A r \in Unit :
          /\ r.task \in CuratedClustering
          /\ r.spike_times = r.spike_sites
          /\ r.spike_sites = r.spike_depths
    /\ \A t \in CuratedClustering :
          { r.unit : r \in { x \in Unit : x.task = t } } = UnitIds
    /\ curation_call # <<>> =>
          /\ ( /\ curation_call.arrays # <<>>
               /\ \E u \in UnitIds :
                     Cardinality({ curation_call.arrays[u].spike_times,
                                   curation_call.arrays[u].spike_sites,
                                   curation_call.arrays[u].spike_depths }) > 1 )
                => /\ curation_call.inserts = <<>>
                   /\ curation_call.task \notin CuratedClustering
                   /\ \A r \in Unit : r.task # curation_call.task
          /\ curation_call.inserts # <<>> =>
                /\ Len(curation_call.inserts) = 2
                /\ curation_call.inserts[1].table = "CuratedClustering"
                /\ curation_call.inserts[1].rows = {curation_call.task}
                /\ curation_call.inserts[2].table = "Unit"
                /\ { r.unit : r \in curation_call.inserts[2].rows } = UnitIds

\* a make has read arrays of which only the spike_depths of the second unit
\* are short, and has raised
C25_Witness ==
    /\ curation_call # <<>>
    /\ curation_call.arrays # <<>>
    /\ SameLength(curation_call.arrays[0])
    /\ curation_call.arrays[1].spike_depths = 1
    /\ last = Call("CuratedClustering", curation_call.task, FALSE, FALSE)

\* a make has stored the units of a task, one of them with a single spike
UnitsStored ==
    /\ curation_call # <<>>
    /\ curation_call.inserts # <<>>
    /\ \E r \in Unit : r.task = curation_call.task /\ r.spike_times = 1

\* C26: the lfp_sampling_rate of a stored LFP row is the rate of the stored
\* traces, the header sample_rate divided by the downsample_factor used.
C26_RealizedRate ==
    \A row \in LFP :
        row.lfp_sampling_rate * lfp_computed.downsample_factor = header.sample_rate

\* it is for the rates that are a multiple of the target rate
RealizedRateOfMultiples ==
    \A row \in LFP :
        header.sample_rate % TARGET_SAMPLING_RATE = 0 =>
            row.lfp_sampling_rate * lfp_computed.downsample_factor
                = header.sample_rate

\* an LFP is stored for traces decimated by 12 from 30300 Hz
NominalRateStored ==
    /\ lfp_pc = "done"
    /\ header.sample_rate = 30300
    /\ lfp_computed.downsample_factor = 12
    /\ LFP = {[lfp_sampling_rate |-> TARGET_SAMPLING_RATE]}

\* the place of a name in get_computable_extensions()
ComputableIndex(name) ==
    CHOOSE k \in DOMAIN computable_extensions : computable_extensions[k] = name

\* C27: the extensions passed to sorting_analyzer.compute are the requested
\* names that are computable, each once and with its requested parameters,
\* in the order of get_computable_extensions(); a requested name that is not
\* computable and a computable name that is not requested are not passed.
C27_ExtensionsFiltered ==
    analyzer_compute # <<>> =>
        LET passed == analyzer_compute[1]
        IN  /\ { passed[i].ext_name : i \in DOMAIN passed } =
                  DOMAIN extensions_params
                  \cap { computable_extensions[k] : k \in DOMAIN computable_extensions }
            /\ \A i, j \in DOMAIN passed :
                  i < j => ComputableIndex(passed[i].ext_name)
                             < ComputableIndex(passed[j].ext_name)
            /\ \A i \in DOMAIN passed :
                  passed[i].params = extensions_params[passed[i].ext_name]

\* compute has been called with two extensions in the analyzer's order,
\* a requested extension was not computable and a computable one not requested
C27_Witness ==
    /\ analyzer_compute # <<>>
    /\ computable_extensions = <<"templates", "quality_metrics", "random_spikes">>
    /\ DOMAIN extensions_params =
          {"random_spikes", "templates", "spike_locations"}
    /\ Len(analyzer_compute[1]) = 2
    /\ analyzer_compute[1][1].ext_name = "templates"
    /\ analyzer_compute[1][2].ext_name = "random_spikes"

\* the channels "{port_id}-{channel_idx:03d}" of the used electrodes, all
\* electrodes when used_electrodes is absent or empty
UsedChannels ==
    LET used == { probe_info.used_electrodes[i] :
                    i \in DOMAIN probe_info.used_electrodes }
    IN  { ChannelName(probe_info.port_id, electrodes_df[i].channel_idx) :
            i \in { j \in DOMAIN electrodes_df :
                      used = {} \/ electrodes_df[j].electrode \in used } }

\* C28: the channels of the recording PreProcessing builds are exactly the
\* channels of the used electrodes, whatever the numbering of the electrodes.
C28_UsedChannelsKept ==
    si_recording # <<>> =>
        { si_recording.channel_ids[i] : i \in DOMAIN si_recording.channel_ids }
            = UsedChannels

\* they are when the electrodes are numbered 0, 1, 2, ... without gaps
UsedChannelsKeptFromZero ==
    ( /\ si_recording # <<>>
      /\ \A i \in DOMAIN electrodes_df : electrodes_df[i].electrode = i - 1 )
    => { si_recording.channel_ids[i] : i \in DOMAIN si_recording.channel_ids }
           = UsedChannels

\* with the electrodes 1, 2, 3 and used_electrodes = [1, 2] the channel of
\* electrode 1 is removed and the channel of electrode 3 is kept
UsedChannelRemoved ==
    /\ si_recording # <<>>
    /\ electrodes_df = << [electrode |-> 1, channel_idx |-> 0],
                          [electrode |-> 2, channel_idx |-> 1],
                          [electrode |-> 3, channel_idx |-> 2] >>
    /\ probe_info.used_electrodes = <<1, 2>>
    /\ si_recording.channel_ids = << ChannelName("A", 1), ChannelName("A", 2) >>

\* C29: a call of insert_new_params without paramset_idx asks for an index
\* that no stored set has; with a (method, params) pair that is stored it
\* raises the conflict error and leaves the table unchanged, and it never
\* returns as a no-op and never raises the error of a taken index.
C29_AutoIndexConflicts ==
    [][ (param_call' # <<>> /\ param_call'.paramset_idx = None) =>
          /\ \A r \in ParamSets : r.paramset_idx # AskedIdx(param_call', ParamSets)
          /\ param_call'.result \in {"exists", "inserted"}
          /\ (\E r \in ParamSets :
                 /\ r.clustering_method = param_call'.clustering_method
                 /\ r.params = param_call'.params)
             => (param_call'.result = "exists" /\ ParamSets' = ParamSets)
      ]_vars

\* a stored pair has been given again without paramset_idx
C29_Witness ==
    /\ param_call # <<>>
    /\ param_call.paramset_idx = None
    /\ param_call.result = "exists"
    /\ \E r \in ParamSets :
          /\ r.clustering_method = param_call.clustering_method
          /\ r.params = param_call.params

\* the directory infer_output_dir names for a task, part by part
ExpectedDir(t) ==
    << t.organoid_id,
       <<t.start_time \div 60, "_", t.end_time \div 60>>,
       t.organoid_id,
       << Replace(ParamsOf(t).clustering_method, ".", "-"), "_", t.paramset_idx >> >>

\* C30: a task with a PreProcessing row has a non-empty clustering_output_dir,
\* and the directories of its stored stages hold their artifacts under it; a
\* stored directory, the user's included, is never replaced; an empty one is
\* filled only by the PreProcessing run that stores the task's row, with the
\* inferred directory, which exists by then; a failed run changes none.
C30_OutputDirResolved ==
    /\ [](\A t \in PreProcessing :
             /\ clustering_output_dir[t] # <<>>
             /\ RecordingAt(DirOf(t)) = "full")
    /\ [](\A t \in SIClustering : Exists(ArtifactAt(spike_sorting, DirOf(t))))
    /\ [](\A t \in PostProcessing : Exists(ArtifactAt(sorting_analyzer, DirOf(t))))
    /\ [][ \A t \in ClusteringTask :
             /\ clustering_output_dir[t] # <<>>
                => clustering_output_dir'[t] = clustering_output_dir[t]
             /\ clustering_output_dir'[t] # clustering_output_dir[t]
                => /\ t \in PreProcessing' \ PreProcessing
                   /\ clustering_output_dir'[t] = ExpectedDir(t)
                   /\ ExpectedDir(t) \in made_dirs'
                   /\ <<DirOf(t)', "recording">> \in made_dirs'
             /\ PreProcessing' = PreProcessing
                => clustering_output_dir'[t] = clustering_output_dir[t]
       ]_vars

\* one task was preprocessed in the directory its user gave and another in
\* the inferred one, after a failed run
C30_Witness ==
    /\ failures > 0
    /\ \E t \in PreProcessing : clustering_output_dir[t] = UserDir(t)
    /\ \E t \in PreProcessing : clustering_output_dir[t] = ExpectedDir(t)
====
